---- MODULE Spec2Model ----
(***************************************************************************)
(* Report export of the AI-regulation analytics dashboard:                 *)
(*   ExportReport.exportCurrentPanel / exportWholeDashboard /              *)
(*   generateAIInsights      (src/frontend/components/TopKeywords.tsx)     *)
(*   generatePDFReport       (src/unnamed/part_007)                        *)
(*   Dashboard tab buttons   (src/frontend/app/page.tsx)                   *)
(* Lengths are millimetres on the A4 portrait page jsPDF is created with.  *)
(* One action is the synchronous code between two awaits of a handler.     *)
(***************************************************************************)
EXTENDS Integers, Sequences, FiniteSets, TLC

\* ---------------------------------------------------------------- bounds
MaxCharts == 2      \* .recharts-wrapper elements a container lookup returns
MaxCards == 1       \* chart cards of one tab
NumTabs == 2        \* buttons in nav[aria-label="Tabs"]
MaxRuns == 2        \* exports started one after the other
MaxClicks == 1      \* tab clicks of the user while one export runs
LongParaLines == 20 \* wrapped lines of the longest insight paragraph
MaxViews == 2       \* saved views in the list
MaxClock == 2       \* values of Date.now()
MaxDate == 1        \* dates the date inputs take
MaxMessages == 3    \* messages in the conversation of the assistant
MaxRequests == 1    \* uploads in flight
MaxChats == 2       \* posts to the chat endpoints in flight
MaxTimers == 1      \* timeouts of handleQuickQuestion waiting
MaxOverviews == 1   \* GET /api/overview in flight
MaxFiles == 3       \* file names offered to the file input
MaxFetches == 2     \* calls of one fetch function in flight
MaxRows == 2        \* items in the body of a chart endpoint

\* ------------------------------------------------------- program constants
PageWidth == 210    \* jsPDF('p','mm','a4').internal.pageSize.getWidth()
PageHeight == 297   \* jsPDF('p','mm','a4').internal.pageSize.getHeight()
Wrapper == 0        \* the tab-content div (bg-white rounded-b-xl shadow-sm)
NoParent == -1      \* chart.closest(...) found nothing
Overview == 1       \* the first tab; its wrapper holds the KPI grid
NoView == -2        \* editingView is null
Fallback2016 == 1   \* day code of '2016-01-01'
Fallback2023 == 2   \* day code of '2023-01-01'
Today == 3          \* day code of new Date().toISOString().split('T')[0]

Cards == 1..MaxCards
Tabs == 1..NumTabs
Parents == {NoParent, Wrapper} \cup Cards

Min(a, b) == IF a < b THEN a ELSE b

\* ------------------------------------------------------------ insight text
\* A string is run-length encoded: a sequence of [c, n], n characters of
\* class c ("w" word character, " " blank, "*", "-", ":", ".").  A text is
\* the sequence of its lines, i.e. the string split at '\n'.
Tok(c, n) == [c |-> c, n |-> n]

RECURSIVE LineLen(_)
LineLen(line) ==
    IF line = <<>> THEN 0 ELSE Head(line).n + LineLen(Tail(line))

\* .replace(/\*\*/g, '').replace(/\*/g, ''): no asterisk survives
RemoveStars(line) == SelectSeq(line, LAMBDA t : t.c # "*")

RECURSIVE TrimLeft(_)
TrimLeft(line) ==
    IF line # <<>> /\ Head(line).c = " " THEN TrimLeft(Tail(line)) ELSE line

RECURSIVE TrimRight(_)
TrimRight(line) ==
    IF line # <<>> /\ line[Len(line)].c = " "
    THEN TrimRight(SubSeq(line, 1, Len(line) - 1))
    ELSE line

\* String.prototype.trim() on one line
TrimLine(line) == TrimRight(TrimLeft(line))

IsBlank(line) == TrimLine(line) = <<>>

RECURSIVE DropBlankHead(_)
DropBlankHead(text) ==
    IF text # <<>> /\ IsBlank(Head(text)) THEN DropBlankHead(Tail(text)) ELSE text

RECURSIVE DropBlankTail(_)
DropBlankTail(text) ==
    IF text # <<>> /\ IsBlank(text[Len(text)])
    THEN DropBlankTail(SubSeq(text, 1, Len(text) - 1))
    ELSE text

\* String.prototype.trim() on the whole text: leading and trailing white
\* space goes, newlines included; ''.split('\n') is one empty line.
TrimText(text) ==
    LET t == DropBlankTail(DropBlankHead(text)) IN
    IF t = <<>> THEN << <<>> >>
    ELSE [i \in 1..Len(t) |->
            IF i = 1 /\ i = Len(t) THEN TrimLine(t[i])
            ELSE IF i = 1 THEN TrimLeft(t[i])
            ELSE IF i = Len(t) THEN TrimRight(t[i])
            ELSE t[i]]

\* insights.replace(/\*\*/g,'').replace(/\*/g,'').trim().split('\n')
CleanInsights(text) == TrimText([i \in 1..Len(text) |-> RemoveStars(text[i])])

\* trimmedLine.endsWith(':') && trimmedLine.length < 50 && !trimmedLine.includes('.')
IsSectionHeader(line) ==
    /\ line # <<>>
    /\ line[Len(line)].c = ":"
    /\ LineLen(line) < 50
    /\ \A i \in 1..Len(line) : line[i].c # "."

\* pdf.splitTextToSize(trimmedLine, pageWidth - 30): the number of lines the
\* text is broken into; Helvetica at 8.5-9.5 pt sets about 100 characters in
\* the 180 mm printable width.
SplitTextToSize(line) == IF LineLen(line) = 0 THEN 1 ELSE (LineLen(line) + 99) \div 100

\* 'Unable to generate insights at this time.'
FallbackError == << <<Tok("w", 40), Tok(".", 1)>> >>
\* 'Analysis unavailable for this chart.'
FallbackEmpty == << <<Tok("w", 35), Tok(".", 1)>> >>

\* Texts the insight service answers with.
BulletText ==
    << <<Tok("*", 2), Tok("w", 12), Tok(":", 1), Tok("*", 2)>>,
       <<Tok("-", 1), Tok(" ", 1), Tok("w", 30)>>,
       <<Tok("-", 1), Tok(" ", 1), Tok("w", 30), Tok(".", 1)>> >>
LongText ==
    << <<Tok(" ", 2)>>,
       <<Tok("w", 8), Tok(":", 1), Tok(" ", 1)>>,
       <<>>,
       <<Tok("w", 100 * LongParaLines - 1), Tok(".", 1)>>,
       <<>> >>
InsightTexts == <<BulletText, LongText>>

\* response.data.insights || 'Analysis unavailable for this chart.' ; the
\* catch branch returns 'Unable to generate insights at this time.'
\* r = 0: the request failed, r = -1: empty insights, r >= 1: InsightTexts[r]
InsightResult(r) ==
    IF r = 0 THEN FallbackError
    ELSE IF r = -1 THEN FallbackEmpty
    ELSE InsightTexts[r]

InsightOutcomes == {-1, 0} \cup (1..Len(InsightTexts))

\* canvas sizes html2canvas resolves with (pixels)
Canvases == {[w |-> 3060, h |-> 612], [w |-> 3060, h |-> 3060]}

\* ------------------------------------------------------------------ state
VARIABLES
    pc,              \* "idle", "wait", "capture", "insight", "done"
    mode,            \* "none", "panel", "dashboard", "report"
    isExporting,     \* useState(false)
    showDropdown,    \* useState(false)
    activeTab,       \* Dashboard's useState('overview')
    tabIdx,          \* position of exportWholeDashboard's loop over tabButtons
    lookupTab,       \* the tab whose DOM the current NodeList was taken from
    charts,          \* NodeList of .recharts-wrapper: each element's closest card
    idx,             \* position of the loop over charts / sections
    cur,             \* chartParent of the chart being processed
    processedCharts, \* the Set of chart parents already taken
    hiddenBtn,       \* cards of the mounted tab whose export button has display 'none'
    hiddenElements,  \* the buttons the running capture has hidden
    yPosition,       \* let yPosition
    pages,           \* pages of the jsPDF document
    doc,             \* what has been drawn: blocks [kind, key, page, y, h, txt]
    capturedCount,   \* generatePDFReport's counter
    saves,           \* calls of pdf.save in this export
    alerts,          \* alert() messages of this export
    logs,            \* console.error / console.warn entries of this export
    requests,        \* html2canvas calls and insight posts of this export, in order
    inflight,        \* requests not yet settled
    hiddenByExport,  \* buttons this export has set to display 'none'
    runNo,           \* number of the export in progress
    script,          \* the environment's answers during the first export
    pos,             \* position in script while the second export replays it
    prevDoc,         \* document the previous export produced
    \* Dashboard (page.tsx) and SavedViewsManager
    dateRange,       \* useState({ from: '', to: '' })
    savedViews,      \* useState<SavedView[]>([])
    storage,         \* localStorage item 'savedDashboardViews'
    now,             \* the last value Date.now() returned
    newViewName,     \* useState('')
    showSaveModal,   \* useState(false)
    showViewsModal,  \* useState(false)
    editingView,     \* useState<string | null>(null)
    editName,        \* useState('')
    effects,         \* effects of SavedViewsManager waiting to run, in order
    queued,          \* the setSavedViews call of the load effect not yet rendered
    loaded,          \* what the view put on display by handleLoadView was saved with
    mountL,          \* what storage held at the mount, until a handler changes the list
    \* ThemeProvider
    theme,           \* useState<Theme>(getInitialTheme)
    mounted,         \* useState(false)
    themeItem,       \* localStorage item 'theme'
    darkClass,       \* document.documentElement has the class 'dark'
    prefersDark,     \* matchMedia('(prefers-color-scheme: dark)').matches
    themeFx,         \* where the provider is between mount and settled effects
    \* ProfessionalAssistant
    messages,        \* useState<Message[]>([])
    inputValue,      \* useState('')
    isLoading,       \* useState(false)
    isUploading,     \* useState(false)
    showUploadModal, \* useState(false)
    uploadedDocument, \* useState<UploadedDocument | null>(null)
    exampleQuestions, \* useState<string[]>([])
    timers,          \* timeouts of handleQuickQuestion not yet run, with their closures
    chatReqs,        \* posts to /api/chat and /api/chat-with-document in flight
    uploadReqs,      \* posts to /api/upload-document in flight
    overviewReqs,    \* GET /api/overview in flight
    examplesReq,     \* GET /api/example-questions in flight
    \* Dashboard data (page.tsx) and the chart components of the last tab
    overview,        \* useState<OverviewData | null>(null)
    loading,         \* useState(true)
    liveDataStatus,  \* useState(true)
    initReq,         \* initializeDateRange's GET /api/overview is in flight
    fetches,         \* fetchOverview calls in flight: the range each asked for
    chartState,      \* per mounted chart component: its data and loading
    chartFetches     \* per chart component: fetchData calls in flight

\* everything the export handlers own; activeTab belongs to the Dashboard
exportVars == <<pc, mode, isExporting, showDropdown, tabIdx, lookupTab, charts,
                idx, cur, processedCharts, hiddenBtn, hiddenElements, yPosition, pages,
                doc, capturedCount, saves, alerts, logs, requests, inflight,
                hiddenByExport, runNo, script, pos, prevDoc>>

viewVars == <<dateRange, savedViews, storage, now, newViewName, showSaveModal,
              showViewsModal, editingView, editName, effects, queued, loaded,
              mountL>>

themeVars == <<theme, mounted, themeItem, darkClass, prefersDark, themeFx>>

chatVars == <<messages, inputValue, isLoading, isUploading, showUploadModal,
              uploadedDocument, exampleQuestions, timers, chatReqs, uploadReqs,
              overviewReqs, examplesReq>>

dataVars == <<overview, loading, liveDataStatus, initReq, fetches, chartState,
              chartFetches>>

\* what an export leaves alone
otherVars == <<viewVars, themeVars, chatVars, dataVars>>

vars == <<exportVars, activeTab, viewVars, themeVars, chatVars, dataVars>>

Key(t, c) == [tab |-> t, card |-> c]
NoKey == Key(0, NoParent)

\* ----------------------------------------------------------------- layout
\* p = [y, page, doc] is yPosition and the document being built.
Layout(y, pg, d) == [y |-> y, page |-> pg, doc |-> d]

\* pdf.addPage(); yPosition = 20
NewPageIf(p, cond) == IF cond THEN [p EXCEPT !.page = @ + 1, !.y = 20] ELSE p

Put(p, kind, key, h, txt) ==
    [p EXCEPT !.doc = Append(@, [kind |-> kind, key |-> key, page |-> p.page,
                                 y |-> p.y, h |-> h, txt |-> txt])]

Advance(p, d) == [p EXCEPT !.y = @ + d]

\* the numbers in which exportCurrentPanel and exportWholeDashboard differ
Metrics(m) ==
    IF m = "panel"
    THEN [headBreak |-> 120, headAdv |-> 10, maxHeight |-> 120, imgGap |-> 10,
          insAdv |-> 7, hdrAdv |-> 6, lineAdv |-> 5, paraGap |-> 3, sepAdv |-> 10]
    ELSE [headBreak |-> 100, headAdv |-> 8, maxHeight |-> 100, imgGap |-> 8,
          insAdv |-> 6, hdrAdv |-> 5, lineAdv |-> 4, paraGap |-> 2, sepAdv |-> 8]

\* if (yPosition > pageHeight - 120) addPage; pdf.text(chartTitle, 15, yPosition)
DrawHeading(p, m, key) ==
    LET p1 == NewPageIf(p, p.y > PageHeight - Metrics(m).headBreak) IN
    Advance(Put(p1, "heading", key, Metrics(m).headAdv, <<>>), Metrics(m).headAdv)

\* imgHeight = (canvas.height * imgWidth) / canvas.width
ImgHeight(canvas, imgWidth) == (canvas.h * imgWidth) \div canvas.w

\* the image, then the 'KEY INSIGHTS & ANALYSIS' line
DrawImage(p, m, key, canvas) ==
    LET h  == Min(ImgHeight(canvas, PageWidth - 30), Metrics(m).maxHeight)
        p1 == NewPageIf(p, p.y + h > PageHeight - 50)
        p2 == Advance(Put(p1, "image", key, h, <<>>), h + Metrics(m).imgGap)
    IN  Advance(Put(p2, "insightsHeader", key, Metrics(m).insAdv, <<>>), Metrics(m).insAdv)

\* the loop over wrappedText as it would be without its page-break test
DrawWrappedNoBreak(p, m, key, line, n) ==
    LET adv == Metrics(m).lineAdv
        new == [i \in 1..n |-> [kind |-> "text", key |-> key, page |-> p.page,
                                y |-> p.y + (i - 1) * adv, h |-> adv, txt |-> line]]
    IN  [p EXCEPT !.doc = @ \o new, !.y = @ + n * adv]

\* for (const textLine of wrappedText) {
\*   if (yPosition > pageHeight - 15) { pdf.addPage(); yPosition = 20 }
\*   pdf.text(textLine, 15, yPosition); yPosition += 5 }
\* taken a page at a time: after the page-break test, fit lines are drawn one
\* below the other before yPosition exceeds pageHeight - 15 again.
RECURSIVE DrawWrapped(_, _, _, _, _)
DrawWrapped(p, m, key, line, n) ==
    IF n = 0 THEN p
    ELSE LET p1  == NewPageIf(p, p.y > PageHeight - 15)
             adv == Metrics(m).lineAdv
             fit == (PageHeight - 15 - p1.y) \div adv + 1
             k   == Min(n, fit)
             new == [i \in 1..k |-> [kind |-> "text", key |-> key, page |-> p1.page,
                                     y |-> p1.y + (i - 1) * adv, h |-> adv, txt |-> line]]
         IN  DrawWrapped([p1 EXCEPT !.doc = @ \o new, !.y = @ + k * adv],
                         m, key, line, n - k)

\* one iteration of for (const line of lines)
DrawLine(p, m, key, line) ==
    LET p1 == NewPageIf(p, p.y > PageHeight - 15)
        trimmedLine == TrimLine(line)
    IN  IF trimmedLine = <<>> THEN Advance(p1, 2)
        ELSE IF IsSectionHeader(trimmedLine)
        THEN Advance(Put(p1, "header", key, Metrics(m).hdrAdv, trimmedLine),
                     Metrics(m).hdrAdv)
        ELSE Advance(DrawWrapped(p1, m, key, trimmedLine, SplitTextToSize(trimmedLine)),
                     Metrics(m).paraGap)

RECURSIVE DrawLines(_, _, _, _)
DrawLines(p, m, key, lines) ==
    IF lines = <<>> THEN p
    ELSE DrawLines(DrawLine(p, m, key, Head(lines)), m, key, Tail(lines))

\* yPosition += 2; pdf.line(...); yPosition += 10
DrawSeparator(p, m, key) ==
    Advance(Put(Advance(p, 2), "separator", key, 0, <<>>), Metrics(m).sepAdv)

\* everything drawn after generateAIInsights has returned
DrawInsights(p, m, key, insights) ==
    DrawSeparator(DrawLines(p, m, key, CleanInsights(insights)), m, key)

\* --------------------------------------------------------------- the DOM
\* querySelectorAll('.recharts-wrapper') of the visible container, each
\* element given by what chart.closest('.bg-white, .rounded-xl, ...') finds
ChartLists(n) == UNION {[1..k -> Parents] : k \in 0..n}

\* chartParent.querySelector('[class*="KPI"], .grid.grid-cols-1.md\:grid-cols-2'):
\* only the wrapper of the overview tab holds the KPI grid (page.tsx 305-319)
HasKPIClass(parent, tab) == parent = Wrapper /\ tab = Overview

\* chartParent.querySelectorAll('button[title*="Export"], button:has(svg...)'):
\* every chart card renders one export button; the wrapper holds them all
ExportButtons(parent) == IF parent = Wrapper THEN Cards ELSE {parent}

\* the next chart the loop does not skip (0: none):
\*   if (!chartParent || processedCharts.has(chartParent)) continue;
\*   if (hasKPIClass) continue;
NextChart(list, from, processed, tab) ==
    LET ok == {j \in (from + 1)..Len(list) :
                  /\ list[j] # NoParent
                  /\ list[j] \notin processed
                  /\ ~HasKPIClass(list[j], tab)}
    IN  IF ok = {} THEN 0 ELSE CHOOSE j \in ok : \A k \in ok : j <= k

Clicks == {i \in 1..Len(script) : script[i][1] = "click"}
Captures == {i \in 1..Len(requests) : requests[i].kind = "capture"}
\* chart elements the DOM may still show in this export
Budget == MaxCharts - Cardinality(Captures)

\* ----------------------------------------------------- replay of a script
Admit(e) == runNo = 1 \/ (pos <= Len(script) /\ script[pos][1] = e[1] /\ script[pos] = e)
Rec(e) ==
    /\ script' = IF runNo = 1 THEN Append(script, e) ELSE script
    /\ pos' = IF runNo = 1 THEN pos ELSE pos + 1

InitExport ==
    /\ pc = "idle" /\ mode = "none"
    /\ isExporting = FALSE /\ showDropdown = FALSE
    /\ activeTab = Overview /\ tabIdx = 0 /\ lookupTab = 0
    /\ charts = <<>> /\ idx = 0 /\ cur = NoParent /\ processedCharts = {}
    /\ hiddenBtn = {} /\ hiddenElements = {}
    /\ yPosition = 0 /\ pages = 0 /\ doc = <<>>
    /\ capturedCount = 0 /\ saves = 0 /\ alerts = <<>> /\ logs = <<>>
    /\ requests = <<>> /\ inflight = {} /\ hiddenByExport = {}
    /\ runNo = 1 /\ script = <<>> /\ pos = 1
    /\ prevDoc = [doc |-> <<>>, pages |-> 0, saves |-> 0]

\* the loop as it would be with the tab of the start clicked again at the end
ContinueRestoresTab(p, list, from, proc, tab, lg, infl, m) ==
    LET j == NextChart(list, from, proc, tab) IN
    /\ logs' = lg
    /\ IF j # 0
       THEN LET key == Key(tab, list[j])
                p1 == DrawHeading(p, m, key)
                toHide == ExportButtons(list[j]) \ hiddenBtn
                req == [kind |-> "capture", key |-> key]
            IN  /\ pc' = "capture"
                /\ idx' = j /\ cur' = list[j]
                /\ processedCharts' = proc \cup {list[j]}
                /\ hiddenElements' = toHide
                /\ hiddenBtn' = hiddenBtn \cup toHide
                /\ hiddenByExport' = hiddenByExport \cup toHide
                /\ requests' = Append(requests, req)
                /\ inflight' = infl \cup {req}
                /\ yPosition' = p1.y /\ pages' = p1.page /\ doc' = p1.doc
                /\ isExporting' = TRUE
                /\ UNCHANGED <<showDropdown, activeTab, tabIdx, saves>>
       ELSE /\ idx' = Len(list) /\ cur' = NoParent
            /\ processedCharts' = proc
            /\ hiddenElements' = {}
            /\ inflight' = infl
            /\ yPosition' = p.y /\ pages' = p.page /\ doc' = p.doc
            /\ UNCHANGED <<hiddenByExport, requests>>
            /\ IF m = "dashboard" /\ tabIdx < NumTabs
               THEN \* button.click(); await new Promise(r => setTimeout(r, 1500))
                    /\ pc' = "wait"
                    /\ tabIdx' = tabIdx + 1
                    /\ activeTab' = tabIdx + 1
                    /\ hiddenBtn' = IF activeTab = tabIdx + 1 THEN hiddenBtn ELSE {}
                    /\ isExporting' = TRUE
                    /\ UNCHANGED <<showDropdown, saves>>
               ELSE \* pdf.save(...); finally { setIsExporting(false); setShowDropdown(false) }
                    /\ pc' = "done"
                    /\ saves' = saves + 1
                    /\ isExporting' = FALSE /\ showDropdown' = FALSE
                    /\ activeTab' = script'[1][2]
                    /\ hiddenBtn' = IF activeTab = script'[1][2] THEN hiddenBtn ELSE {}
                    /\ UNCHANGED tabIdx

\* ------------------------------------------- the loop over chart elements
\* From the end of one chart to the next await of exportCurrentPanel /
\* exportWholeDashboard: skip to the next chart, draw its heading, hide its
\* export buttons and call html2canvas; with no chart left, click the next
\* tab (whole dashboard) or save the document and run the finally block.
Continue(p, list, from, proc, tab, lg, infl, m) ==
    LET j == NextChart(list, from, proc, tab) IN
    /\ logs' = lg
    /\ IF j # 0
       THEN LET key == Key(tab, list[j])
                p1 == DrawHeading(p, m, key)
                toHide == ExportButtons(list[j]) \ hiddenBtn
                req == [kind |-> "capture", key |-> key]
            IN  /\ pc' = "capture"
                /\ idx' = j /\ cur' = list[j]
                /\ processedCharts' = proc \cup {list[j]}
                /\ hiddenElements' = toHide
                /\ hiddenBtn' = hiddenBtn \cup toHide
                /\ hiddenByExport' = hiddenByExport \cup toHide
                /\ requests' = Append(requests, req)
                /\ inflight' = infl \cup {req}
                /\ yPosition' = p1.y /\ pages' = p1.page /\ doc' = p1.doc
                /\ isExporting' = TRUE
                /\ UNCHANGED <<showDropdown, activeTab, tabIdx, saves>>
       ELSE /\ idx' = Len(list) /\ cur' = NoParent
            /\ processedCharts' = proc
            /\ hiddenElements' = {}
            /\ inflight' = infl
            /\ yPosition' = p.y /\ pages' = p.page /\ doc' = p.doc
            /\ UNCHANGED <<hiddenByExport, requests>>
            /\ IF m = "dashboard" /\ tabIdx < NumTabs
               THEN \* button.click(); await new Promise(r => setTimeout(r, 1500))
                    /\ pc' = "wait"
                    /\ tabIdx' = tabIdx + 1
                    /\ activeTab' = tabIdx + 1
                    /\ hiddenBtn' = IF activeTab = tabIdx + 1 THEN hiddenBtn ELSE {}
                    /\ isExporting' = TRUE
                    /\ UNCHANGED <<showDropdown, saves>>
               ELSE \* pdf.save(...); finally { setIsExporting(false); setShowDropdown(false) }
                    /\ pc' = "done"
                    /\ saves' = saves + 1
                    /\ isExporting' = FALSE /\ showDropdown' = FALSE
                    /\ UNCHANGED <<activeTab, tabIdx, hiddenBtn>>

\* ----------------------------------------------------------------- actions
\* the Export Report button and the backdrop of the menu
ToggleDropdown ==
    /\ pc = "idle" /\ ~isExporting /\ runNo = 1
    /\ showDropdown' = ~showDropdown
    /\ UNCHANGED <<pc, mode, isExporting, activeTab, tabIdx, lookupTab, charts, idx, cur,
                   processedCharts, hiddenBtn, hiddenElements, yPosition, pages, doc,
                   capturedCount, saves, alerts, logs, requests, inflight, hiddenByExport,
                   runNo, script, pos, prevDoc>>

\* a tab button of the dashboard: onClick={() => setActiveTab(tab.id)}; the
\* content of the tab left is unmounted.  Clicks arrive between the awaits.
UserClickTab(t) ==
    /\ pc \in {"idle", "wait", "capture", "insight"}
    /\ t # activeTab
    /\ pc = "idle" => runNo = 1
    /\ activeTab' = t
    /\ hiddenBtn' = {}
    /\ IF pc = "idle" THEN UNCHANGED <<script, pos>>
       ELSE /\ runNo = 1 => Cardinality(Clicks) < MaxClicks
            /\ Admit(<<"click", t>>) /\ Rec(<<"click", t>>)
    /\ UNCHANGED <<pc, mode, isExporting, showDropdown, tabIdx, lookupTab, charts, idx,
                   cur, processedCharts, hiddenElements, yPosition, pages, doc,
                   capturedCount, saves, alerts, logs, requests, inflight, hiddenByExport,
                   runNo, prevDoc>>

\* title block of exportCurrentPanel
PanelTitle(hasDates) ==
    LET p0 == Put(Layout(20, 1, <<>>), "title", NoKey, 0, <<>>)
        p1 == Put(Advance(p0, 10), "tabName", NoKey, 0, <<>>)
        p2 == Put(Advance(p1, 8), "generated", NoKey, 0, <<>>)
        p3 == IF hasDates THEN Put(Advance(p2, 5), "period", NoKey, 0, <<>>) ELSE p2
    IN  Advance(p3, 15)

\* exportCurrentPanel as it would be with processedCharts kept in the
\* component instead of created by each call
StartPanelKeepsSet(hasContainer, hasDates, list) ==
    LET e == <<"panel", activeTab, hasContainer, hasDates, list>> IN
    /\ pc = "idle" /\ showDropdown /\ ~isExporting
    /\ Admit(e) /\ Rec(e)
    /\ mode' = "panel"
    /\ lookupTab' = activeTab
    /\ UNCHANGED <<capturedCount, runNo, prevDoc>>
    /\ IF ~hasContainer
       THEN /\ list = <<>>
            /\ alerts' = Append(alerts, "No active panel found")
            /\ pc' = "done"
            /\ isExporting' = FALSE /\ showDropdown' = FALSE
            /\ charts' = <<>>
            /\ UNCHANGED <<activeTab, tabIdx, idx, cur, processedCharts, hiddenBtn,
                           hiddenElements, yPosition, pages, doc, saves, logs, requests,
                           inflight, hiddenByExport>>
       ELSE /\ charts' = list
            /\ UNCHANGED alerts
            /\ Continue(PanelTitle(hasDates), list, 0, processedCharts, activeTab, logs,
                        inflight, "panel")

\* exportCurrentPanel as it would be if the return for a missing panel left
\* the flag and the menu as they are
StartPanelNoReset(hasContainer, hasDates, list) ==
    LET e == <<"panel", activeTab, hasContainer, hasDates, list>> IN
    /\ pc = "idle" /\ showDropdown /\ ~isExporting
    /\ Admit(e) /\ Rec(e)
    /\ mode' = "panel"
    /\ lookupTab' = activeTab
    /\ UNCHANGED <<capturedCount, runNo, prevDoc>>
    /\ IF ~hasContainer
       THEN /\ list = <<>>
            /\ alerts' = Append(alerts, "No active panel found")
            /\ pc' = "done"
            /\ isExporting' = TRUE
            /\ charts' = <<>>
            /\ UNCHANGED <<showDropdown, activeTab, tabIdx, idx, cur, processedCharts,
                           hiddenBtn, hiddenElements, yPosition, pages, doc, saves, logs,
                           requests, inflight, hiddenByExport>>
       ELSE /\ charts' = list
            /\ UNCHANGED alerts
            /\ Continue(PanelTitle(hasDates), list, 0, {}, activeTab, logs, inflight, "panel")

\* exportCurrentPanel up to its first await
StartPanel(hasContainer, hasDates, list) ==
    LET e == <<"panel", activeTab, hasContainer, hasDates, list>> IN
    /\ pc = "idle" /\ showDropdown /\ ~isExporting
    /\ Admit(e) /\ Rec(e)
    /\ mode' = "panel"
    /\ lookupTab' = activeTab
    /\ UNCHANGED <<capturedCount, runNo, prevDoc>>
    /\ IF ~hasContainer
       THEN \* alert('No active panel found...'); setIsExporting(false); return
            /\ list = <<>>
            /\ alerts' = Append(alerts, "No active panel found")
            /\ pc' = "done"
            /\ isExporting' = FALSE /\ showDropdown' = FALSE
            /\ charts' = <<>>
            /\ UNCHANGED <<activeTab, tabIdx, idx, cur, processedCharts, hiddenBtn,
                           hiddenElements, yPosition, pages, doc, saves, logs, requests,
                           inflight, hiddenByExport>>
       ELSE /\ charts' = list
            /\ UNCHANGED alerts
            /\ Continue(PanelTitle(hasDates), list, 0, {}, activeTab, logs, inflight, "panel")

\* cover page of exportWholeDashboard
CoverPage(hasDates) ==
    LET p0 == Put(Layout(PageHeight \div 2 - 20, 1, <<>>), "title", NoKey, 0, <<>>)
        p1 == Put(Advance(p0, 20), "tabName", NoKey, 0, <<>>)
        p2 == Put(Advance(p1, 20), "generated", NoKey, 0, <<>>)
    IN  IF hasDates THEN Put(Advance(p2, 10), "period", NoKey, 0, <<>>) ELSE p2

\* exportWholeDashboard up to its first await: the cover page is drawn, the
\* loop over tabButtons starts and clicks the first tab
StartDashboard(hasDates) ==
    LET e == <<"dashboard", activeTab, hasDates>>
        p == CoverPage(hasDates)
    IN  /\ pc = "idle" /\ showDropdown /\ ~isExporting
        /\ Admit(e) /\ Rec(e)
        /\ mode' = "dashboard"
        /\ isExporting' = TRUE
        /\ yPosition' = p.y /\ pages' = p.page /\ doc' = p.doc
        /\ tabIdx' = 1
        /\ activeTab' = 1
        /\ hiddenBtn' = IF activeTab = 1 THEN hiddenBtn ELSE {}
        /\ pc' = "wait"
        /\ charts' = <<>> /\ idx' = 0 /\ cur' = NoParent
        /\ processedCharts' = {} /\ hiddenElements' = {}
        /\ UNCHANGED <<showDropdown, lookupTab, capturedCount, saves, alerts, logs,
                       requests, inflight, hiddenByExport, runNo, prevDoc>>

\* after the 1500 ms wait: a new page with the tab's name, then the charts
\* of whatever container is visible now
AfterWait(hasContainer, list) ==
    LET e == <<"lookup", activeTab, hasContainer, list>>
        p0 == Layout(20, pages + 1, doc)
        p1 == Advance(Put(p0, "tabTitle", Key(tabIdx, NoParent), 0, <<>>), 15)
    IN  /\ pc = "wait"
        /\ hasContainer \/ list = <<>>
        /\ Admit(e) /\ Rec(e)
        /\ lookupTab' = activeTab
        /\ charts' = list
        /\ UNCHANGED <<mode, capturedCount, alerts, runNo, prevDoc>>
        /\ Continue(p1, list, 0, {}, activeTab, logs, inflight, "dashboard")

\* the success path as it would be with generateAIInsights called without
\* await: the loop goes on to the next chart while the post is in flight
CaptureResolvedNoAwait(canvas) ==
    LET e == <<"canvas", canvas>>
        key == Key(lookupTab, cur)
        p1 == DrawImage(Layout(yPosition, pages, doc), mode, key, canvas)
        req == [kind |-> "insight", key |-> key]
        j == NextChart(charts, idx, processedCharts, lookupTab)
        infl == (inflight \ {[kind |-> "capture", key |-> key]}) \cup {req}
    IN  /\ pc = "capture" /\ mode \in {"panel", "dashboard"}
        /\ Admit(e) /\ Rec(e)
        /\ UNCHANGED <<mode, isExporting, showDropdown, activeTab, tabIdx, lookupTab,
                       charts, capturedCount, saves, alerts, logs, runNo, prevDoc>>
        /\ IF j = 0
           THEN /\ hiddenBtn' = hiddenBtn \ hiddenElements
                /\ yPosition' = p1.y /\ pages' = p1.page /\ doc' = p1.doc
                /\ requests' = Append(requests, req)
                /\ inflight' = infl
                /\ pc' = "insight"
                /\ UNCHANGED <<idx, cur, processedCharts, hiddenElements, hiddenByExport>>
           ELSE LET next == Key(lookupTab, charts[j])
                    p2 == DrawHeading(p1, mode, next)
                    shown == hiddenBtn \ hiddenElements
                    toHide == ExportButtons(charts[j]) \ shown
                    cap == [kind |-> "capture", key |-> next]
                IN  /\ pc' = "capture"
                    /\ idx' = j /\ cur' = charts[j]
                    /\ processedCharts' = processedCharts \cup {charts[j]}
                    /\ hiddenElements' = toHide
                    /\ hiddenBtn' = shown \cup toHide
                    /\ hiddenByExport' = hiddenByExport \cup toHide
                    /\ requests' = requests \o <<req, cap>>
                    /\ inflight' = infl \cup {cap}
                    /\ yPosition' = p2.y /\ pages' = p2.page /\ doc' = p2.doc

\* html2canvas resolves: the buttons are shown again, the image is drawn and
\* generateAIInsights posts its request
CaptureResolved(canvas) ==
    LET e == <<"canvas", canvas>>
        key == Key(lookupTab, cur)
        p1 == DrawImage(Layout(yPosition, pages, doc), mode, key, canvas)
        req == [kind |-> "insight", key |-> key]
    IN  /\ pc = "capture" /\ mode \in {"panel", "dashboard"}
        /\ Admit(e) /\ Rec(e)
        /\ hiddenBtn' = hiddenBtn \ hiddenElements
        /\ yPosition' = p1.y /\ pages' = p1.page /\ doc' = p1.doc
        /\ requests' = Append(requests, req)
        /\ inflight' = (inflight \ {[kind |-> "capture", key |-> key]}) \cup {req}
        /\ pc' = "insight"
        /\ UNCHANGED <<mode, isExporting, showDropdown, activeTab, tabIdx, lookupTab,
                       charts, idx, cur, processedCharts, hiddenElements, capturedCount,
                       saves, alerts, logs, hiddenByExport, runNo, prevDoc>>

\* the failure path as it would be without the try around one chart: the
\* rejection reaches the outer catch, which alerts; nothing is saved
CaptureRejectedAborts ==
    LET e == <<"reject">>
        key == Key(lookupTab, cur)
    IN  /\ pc = "capture" /\ mode \in {"panel", "dashboard"}
        /\ Admit(e) /\ Rec(e)
        /\ logs' = Append(logs, [what |-> "PDF export failed", key |-> key])
        /\ alerts' = Append(alerts, "Failed to export report")
        /\ inflight' = inflight \ {[kind |-> "capture", key |-> key]}
        /\ pc' = "done"
        /\ isExporting' = FALSE /\ showDropdown' = FALSE
        /\ UNCHANGED <<mode, activeTab, tabIdx, lookupTab, charts, idx, cur,
                       processedCharts, hiddenBtn, hiddenElements, yPosition, pages, doc,
                       capturedCount, saves, requests, hiddenByExport, runNo, prevDoc>>

\* html2canvas rejects: catch (err) { console.error('Failed to capture chart:', err) }
CaptureRejected ==
    LET e == <<"reject">>
        key == Key(lookupTab, cur)
    IN  /\ pc = "capture" /\ mode \in {"panel", "dashboard"}
        /\ Admit(e) /\ Rec(e)
        /\ UNCHANGED <<mode, lookupTab, charts, capturedCount, alerts, runNo, prevDoc>>
        /\ Continue(Layout(yPosition, pages, doc), charts, idx, processedCharts, lookupTab,
                    Append(logs, [what |-> "Failed to capture chart", key |-> key]),
                    inflight \ {[kind |-> "capture", key |-> key]}, mode)

\* generateAIInsights as it would be with a catch that logs and throws again:
\* the failure reaches the catch around the chart and no text is drawn
InsightsReturnedRethrow(r) ==
    LET e == <<"insights", r>>
        key == Key(lookupTab, cur)
        p0 == Layout(yPosition, pages, doc)
        p1 == DrawInsights(p0, mode, key, InsightResult(r))
        lg == <<[what |-> "Failed to generate insights", key |-> key],
                [what |-> "Failed to capture chart", key |-> key]>>
    IN  /\ pc = "insight"
        /\ Admit(e) /\ Rec(e)
        /\ UNCHANGED <<mode, lookupTab, charts, capturedCount, alerts, runNo, prevDoc>>
        /\ Continue(IF r = 0 THEN p0 ELSE p1, charts, idx, processedCharts, lookupTab,
                    IF r = 0 THEN logs \o lg ELSE logs,
                    inflight \ {[kind |-> "insight", key |-> key]}, mode)

\* generateAIInsights returns: the text is cleaned, drawn line by line and
\* closed with the separator; the loop goes on
InsightsReturned(r) ==
    LET e == <<"insights", r>>
        key == Key(lookupTab, cur)
        p1 == DrawInsights(Layout(yPosition, pages, doc), mode, key, InsightResult(r))
        lg == IF r = 0
              THEN Append(logs, [what |-> "Failed to generate insights", key |-> key])
              ELSE logs
    IN  /\ pc = "insight"
        /\ Admit(e) /\ Rec(e)
        /\ UNCHANGED <<mode, lookupTab, charts, capturedCount, alerts, runNo, prevDoc>>
        /\ Continue(p1, charts, idx, processedCharts, lookupTab, lg,
                    inflight \ {[kind |-> "insight", key |-> key]}, mode)

\* ------------------------------------------------------ generatePDFReport
\* what document.getElementById(section.id) and getBoundingClientRect() give
SectionStates == {"missing", "invisible", "present"}
SectionLists(n) == UNION {[1..k -> SectionStates] : k \in 0..n}

\* title and metadata lines (handleExportReport always passes a dateRange
\* string and never a totalDocs field)
ReportTitle ==
    LET p0 == Advance(Put(Layout(20, 1, <<>>), "title", NoKey, 0, <<>>), 15)
        p1 == Advance(Put(p0, "period", NoKey, 0, <<>>), 7)
    IN  Advance(Put(p1, "generated", NoKey, 0, <<>>), 10)

RECURSIVE Warnings(_, _, _, _)
\* console.warn for the sections from..to that are skipped
Warnings(lg, list, from, to) ==
    IF from > to THEN lg
    ELSE Warnings(Append(lg, [what |-> "Element " \o list[from], key |-> Key(lookupTab', from)]),
                  list, from + 1, to)

\* the loop over sections up to the next html2canvas call, or to pdf.save
ReportContinue(p, list, from, lg, infl, cc) ==
    LET ok == {j \in (from + 1)..Len(list) : list[j] = "present"}
        j == IF ok = {} THEN 0 ELSE CHOOSE k \in ok : \A l \in ok : k <= l
    IN  /\ capturedCount' = cc
        /\ cur' = NoParent
        /\ UNCHANGED <<isExporting, showDropdown, activeTab, tabIdx, processedCharts,
                       hiddenBtn, hiddenElements, hiddenByExport>>
        /\ IF j # 0
           THEN LET req == [kind |-> "capture", key |-> Key(lookupTab', j)] IN
                /\ pc' = "capture"
                /\ idx' = j
                /\ logs' = Warnings(lg, list, from + 1, j - 1)
                /\ requests' = Append(requests, req)
                /\ inflight' = infl \cup {req}
                /\ yPosition' = p.y /\ pages' = p.page /\ doc' = p.doc
                /\ UNCHANGED saves
           ELSE LET p1 == IF cc = 0
                          THEN Put(Advance(Put(p, "message", NoKey, 0, <<>>), 10),
                                   "message", NoKey, 0, <<>>)
                          ELSE p
                IN  /\ pc' = "done"
                    /\ idx' = Len(list)
                    /\ logs' = Warnings(lg, list, from + 1, Len(list))
                    /\ inflight' = infl
                    /\ yPosition' = p.y /\ pages' = p1.page /\ doc' = p1.doc
                    /\ saves' = saves + 1
                    /\ UNCHANGED requests

StartReport(list) ==
    LET e == <<"report", activeTab, list>> IN
    /\ pc = "idle"
    /\ Admit(e) /\ Rec(e)
    /\ mode' = "report"
    /\ lookupTab' = activeTab
    /\ charts' = list
    /\ UNCHANGED <<alerts, runNo, prevDoc>>
    /\ ReportContinue(ReportTitle, list, 0, logs, inflight, 0)

\* html2canvas resolves: page break, section title, image
ReportCaptureResolved(canvas) ==
    LET e == <<"canvas", canvas>>
        key == Key(lookupTab, idx)
        imgHeight == ImgHeight(canvas, PageWidth - 40)
        p0 == Layout(yPosition, pages, doc)
        p1 == NewPageIf(p0, p0.y + imgHeight + 20 > PageHeight)
        p2 == Advance(Put(p1, "heading", key, 10, <<>>), 10)
        p3 == Advance(Put(p2, "image", key, imgHeight, <<>>), imgHeight + 15)
    IN  /\ pc = "capture" /\ mode = "report"
        /\ Admit(e) /\ Rec(e)
        /\ UNCHANGED <<mode, lookupTab, charts, alerts, runNo, prevDoc>>
        /\ ReportContinue(p3, charts, idx, logs,
                          inflight \ {[kind |-> "capture", key |-> key]}, capturedCount + 1)

\* html2canvas rejects: an error note is written into the document
ReportCaptureRejected ==
    LET e == <<"reject">>
        key == Key(lookupTab, idx)
        p1 == Advance(Put(Layout(yPosition, pages, doc), "note", key, 0, <<>>), 10)
    IN  /\ pc = "capture" /\ mode = "report"
        /\ Admit(e) /\ Rec(e)
        /\ UNCHANGED <<mode, lookupTab, charts, alerts, runNo, prevDoc>>
        /\ ReportContinue(p1, charts, idx,
                          Append(logs, [what |-> "Error adding section", key |-> key]),
                          inflight \ {[kind |-> "capture", key |-> key]}, capturedCount)

\* ------------------------------------------------------- the next export
\* The export is over.  The user goes back to the tab the export was started
\* from, opens the menu and exports again; the DOM, html2canvas, the insight
\* service and the user's clicks then repeat what script recorded.  What was
\* observed of the finished export (document, log, alerts, requests) starts
\* afresh; the locals of the finished call keep their last values until the
\* next call initialises them.
ExportAgain ==
    /\ pc = "done" /\ runNo < MaxRuns
    /\ prevDoc' = [doc |-> doc, pages |-> pages, saves |-> saves]
    /\ runNo' = runNo + 1 /\ pos' = 1
    /\ pc' = "idle" /\ mode' = "none"
    /\ activeTab' = script[1][2]
    /\ hiddenBtn' = IF activeTab = script[1][2] THEN hiddenBtn ELSE {}
    /\ showDropdown' = TRUE
    /\ yPosition' = 0 /\ pages' = 0 /\ doc' = <<>>
    /\ saves' = 0 /\ alerts' = <<>> /\ logs' = <<>>
    /\ requests' = <<>> /\ inflight' = {} /\ hiddenByExport' = {}
    /\ UNCHANGED <<isExporting, script, tabIdx, lookupTab, charts, idx, cur,
                   processedCharts, hiddenElements, capturedCount>>

\* ------------------------------------------ saved views (SavedViewsManager)
Dates == 0..MaxDate     \* 0: the empty string the date range starts with
\* what the user types into a name input
Names == {"", " a"}
\* String.prototype.trim()
Trim(n) == IF n = " a" THEN "a" ELSE n

\* what a view was saved with
Saved(from, to, tab) == [has |-> TRUE, from |-> from, to |-> to, tab |-> tab]
NotLoaded == [has |-> FALSE, from |-> 0, to |-> 0, tab |-> Overview]

\* a SavedView; id is Date.now().toString(); the field saved is a record of
\* the moment of saving that no handler reads or writes
View(id, name, from, to, tab, fav) ==
    [id |-> id, name |-> name, dateFrom |-> from, dateTo |-> to, activeTab |-> tab,
     isFavorite |-> fav, saved |-> Saved(from, to, tab)]

\* an item of localStorage: absent, or the list it parses to
NoItem == [has |-> FALSE, list |-> <<>>]
Item(list) == [has |-> TRUE, list |-> list]

\* what earlier sessions may have left in storage
StoredViews == <<View(0, "b", 0, 1, 2, TRUE)>>
StoredItems == {NoItem} \cup {Item(SubSeq(StoredViews, 1, k)) : k \in 0..Len(StoredViews)}

\* savedViews.filter(v => v.id !== id)
FilterOut(list, id) == SelectSeq(list, LAMBDA v : v.id # id)

\* savedViews.map(v => v.id === id ? { ...v, isFavorite: !v.isFavorite } : v)
FlipFavorite(list, id) ==
    [k \in 1..Len(list) |->
        IF list[k].id = id THEN [list[k] EXCEPT !.isFavorite = ~@] ELSE list[k]]

\* savedViews.map(v => v.id === id ? { ...v, name: editName.trim() } : v)
SetName(list, id, name) ==
    [k \in 1..Len(list) |-> IF list[k].id = id THEN [list[k] EXCEPT !.name = name] ELSE list[k]]

\* no effect waits and no state update is pending
Settled == effects = <<>> /\ ~queued.has

\* the save modal and the backdrop of the dropdown cover the page: the page
\* behind takes no click while one of them is open
PageFree == Settled /\ ~showSaveModal /\ ~showViewsModal

InitViews(item) ==
    /\ dateRange = [from |-> 0, to |-> 0]
    /\ savedViews = <<>> /\ storage = item /\ now = 1
    /\ newViewName = "" /\ showSaveModal = FALSE /\ showViewsModal = FALSE
    /\ editingView = NoView /\ editName = ""
    /\ effects = <<"load", "persist">> /\ queued = NoItem
    /\ loaded = NotLoaded /\ mountL = item

\* the two mount effects, run in one flush: the first reads the stored list
\* and calls setSavedViews, the second stores the list of the first render
MountEffects ==
    /\ effects = <<"load", "persist">>
    /\ queued' = IF storage.has THEN Item(storage.list) ELSE queued
    /\ storage' = Item(savedViews)
    /\ effects' = <<>>
    /\ UNCHANGED <<exportVars, dataVars, themeVars, chatVars, activeTab, dateRange, savedViews, now, newViewName,
                   showSaveModal, showViewsModal, editingView, editName, loaded, mountL>>

RenderLoadedNoPersist ==
    /\ effects = <<>> /\ queued.has
    /\ savedViews' = queued.list
    /\ queued' = NoItem
    /\ UNCHANGED <<exportVars, dataVars, themeVars, chatVars, activeTab, dateRange, storage, now, newViewName,
                   showSaveModal, showViewsModal, editingView, editName, effects, loaded,
                   mountL>>

\* the render that follows setSavedViews(JSON.parse(stored)); savedViews has
\* changed, so the persist effect is due again
RenderLoaded ==
    /\ effects = <<>> /\ queued.has
    /\ savedViews' = queued.list
    /\ queued' = NoItem
    /\ effects' = <<"persist">>
    /\ UNCHANGED <<exportVars, dataVars, themeVars, chatVars, activeTab, dateRange, storage, now, newViewName,
                   showSaveModal, showViewsModal, editingView, editName, loaded, mountL>>

\* localStorage.setItem('savedDashboardViews', JSON.stringify(savedViews))
PersistEffect ==
    /\ effects = <<"persist">>
    /\ storage' = Item(savedViews)
    /\ effects' = <<>>
    /\ UNCHANGED <<exportVars, dataVars, themeVars, chatVars, activeTab, dateRange, savedViews, now, newViewName,
                   showSaveModal, showViewsModal, editingView, editName, queued, loaded,
                   mountL>>

\* the Dashboard and its SavedViewsManager start over
ReloadDashboard ==
    /\ activeTab' = Overview
    /\ dateRange' = [from |-> 0, to |-> 0]
    /\ savedViews' = <<>>
    /\ newViewName' = "" /\ showSaveModal' = FALSE /\ showViewsModal' = FALSE
    /\ editingView' = NoView /\ editName' = ""
    /\ effects' = <<"load", "persist">> /\ queued' = NoItem
    /\ loaded' = NotLoaded /\ mountL' = storage

\* the page is loaded again: every component starts over, storage stays
Reload ==
    /\ ReloadDashboard
    /\ UNCHANGED <<exportVars, dataVars, themeVars, chatVars, storage, now>>

\* the date inputs of the Dashboard
SetDateFrom(d) ==
    /\ PageFree /\ d # dateRange.from
    /\ dateRange' = [dateRange EXCEPT !.from = d]
    /\ loaded' = NotLoaded
    /\ UNCHANGED <<exportVars, dataVars, themeVars, chatVars, activeTab, savedViews, storage, now, newViewName,
                   showSaveModal, showViewsModal, editingView, editName, effects, queued,
                   mountL>>

SetDateTo(d) ==
    /\ PageFree /\ d # dateRange.to
    /\ dateRange' = [dateRange EXCEPT !.to = d]
    /\ loaded' = NotLoaded
    /\ UNCHANGED <<exportVars, dataVars, themeVars, chatVars, activeTab, savedViews, storage, now, newViewName,
                   showSaveModal, showViewsModal, editingView, editName, effects, queued,
                   mountL>>

\* a tab button, with no export running
ClickTab(t) ==
    /\ PageFree
    /\ UserClickTab(t)
    /\ loaded' = NotLoaded
    /\ UNCHANGED <<themeVars, chatVars, dataVars, dateRange, savedViews, storage, now, newViewName,
                   showSaveModal, showViewsModal, editingView, editName, effects, queued,
                   mountL>>

\* the Save View button, the Cancel button and the name input of the modal
OpenSaveModal ==
    /\ PageFree
    /\ showSaveModal' = TRUE
    /\ UNCHANGED <<exportVars, dataVars, themeVars, chatVars, activeTab, dateRange, savedViews, storage, now, newViewName,
                   showViewsModal, editingView, editName, effects, queued, loaded, mountL>>

CancelSave ==
    /\ Settled /\ showSaveModal
    /\ showSaveModal' = FALSE /\ newViewName' = ""
    /\ UNCHANGED <<exportVars, dataVars, themeVars, chatVars, activeTab, dateRange, savedViews, storage, now,
                   showViewsModal, editingView, editName, effects, queued, loaded, mountL>>

TypeViewName(n) ==
    /\ Settled /\ showSaveModal /\ n # newViewName
    /\ newViewName' = n
    /\ UNCHANGED <<exportVars, dataVars, themeVars, chatVars, activeTab, dateRange, savedViews, storage, now,
                   showSaveModal, showViewsModal, editingView, editName, effects, queued,
                   loaded, mountL>>

\* handleSaveView, with the render and the persist effect that follow it;
\* t is what Date.now() returns: the clock does not run backwards
handleSaveView(t) ==
    /\ Settled /\ showSaveModal
    /\ t >= now
    /\ now' = t
    /\ IF Trim(newViewName) = ""
       THEN \* alert('Please enter a name for this view'); return
            UNCHANGED <<exportVars, dataVars, themeVars, chatVars, activeTab, dateRange, savedViews, storage,
                        newViewName, showSaveModal, showViewsModal, editingView, editName,
                        effects, queued, loaded, mountL>>
       ELSE LET newView == View(t, Trim(newViewName), dateRange.from, dateRange.to,
                                activeTab, FALSE)
            IN  /\ Len(savedViews) < MaxViews
                /\ savedViews' = Append(savedViews, newView)
                /\ storage' = Item(savedViews')
                /\ newViewName' = "" /\ showSaveModal' = FALSE
                /\ mountL' = NoItem
                /\ UNCHANGED <<exportVars, dataVars, themeVars, chatVars, activeTab, dateRange, showViewsModal,
                               editingView, editName, effects, queued, loaded>>

\* the Saved Views button and the backdrop of the dropdown
ToggleViewsModal ==
    /\ Settled /\ ~showSaveModal
    /\ showViewsModal' = ~showViewsModal
    /\ UNCHANGED <<exportVars, dataVars, themeVars, chatVars, activeTab, dateRange, savedViews, storage, now, newViewName,
                   showSaveModal, editingView, editName, effects, queued, loaded, mountL>>

handleLoadViewDatesOnly(i) ==
    /\ Settled /\ showViewsModal /\ i \in 1..Len(savedViews)
    /\ dateRange' = [from |-> savedViews[i].dateFrom, to |-> savedViews[i].dateTo]
    /\ showViewsModal' = FALSE
    /\ loaded' = savedViews[i].saved
    /\ UNCHANGED <<exportVars, dataVars, themeVars, chatVars, activeTab, savedViews, storage, now, newViewName,
                   showSaveModal, editingView, editName, effects, queued, mountL>>

\* a click on the i-th view: onLoadView(view) is handleLoadView of the
\* Dashboard, then the dropdown closes
handleLoadView(i) ==
    /\ Settled /\ showViewsModal /\ i \in 1..Len(savedViews)
    /\ dateRange' = [from |-> savedViews[i].dateFrom, to |-> savedViews[i].dateTo]
    /\ activeTab' = savedViews[i].activeTab
    /\ showViewsModal' = FALSE
    /\ loaded' = savedViews[i].saved
    /\ UNCHANGED <<exportVars, dataVars, themeVars, chatVars, savedViews, storage, now, newViewName, showSaveModal,
                   editingView, editName, effects, queued, mountL>>

\* handleDeleteView(view.id) of the i-th view; ok is the answer to confirm()
handleDeleteView(i, ok) ==
    /\ Settled /\ showViewsModal /\ i \in 1..Len(savedViews)
    /\ IF ok
       THEN /\ savedViews' = FilterOut(savedViews, savedViews[i].id)
            /\ storage' = Item(savedViews')
            /\ mountL' = NoItem
       ELSE UNCHANGED <<savedViews, storage, mountL>>
    /\ UNCHANGED <<exportVars, dataVars, themeVars, chatVars, activeTab, dateRange, now, newViewName, showSaveModal,
                   showViewsModal, editingView, editName, effects, queued, loaded>>

handleToggleFavorite(i) ==
    /\ Settled /\ showViewsModal /\ i \in 1..Len(savedViews)
    /\ savedViews' = FlipFavorite(savedViews, savedViews[i].id)
    /\ storage' = Item(savedViews')
    /\ mountL' = NoItem
    /\ UNCHANGED <<exportVars, dataVars, themeVars, chatVars, activeTab, dateRange, now, newViewName, showSaveModal,
                   showViewsModal, editingView, editName, effects, queued, loaded>>

startEditing(i) ==
    /\ Settled /\ showViewsModal /\ i \in 1..Len(savedViews)
    /\ editingView' = savedViews[i].id
    /\ editName' = savedViews[i].name
    /\ UNCHANGED <<exportVars, dataVars, themeVars, chatVars, activeTab, dateRange, savedViews, storage, now, newViewName,
                   showSaveModal, showViewsModal, effects, queued, loaded, mountL>>

\* the name input of the view being edited
TypeEditName(n) ==
    /\ Settled /\ showViewsModal /\ n # editName
    /\ \E i \in 1..Len(savedViews) : savedViews[i].id = editingView
    /\ editName' = n
    /\ UNCHANGED <<exportVars, dataVars, themeVars, chatVars, activeTab, dateRange, savedViews, storage, now, newViewName,
                   showSaveModal, showViewsModal, editingView, effects, queued, loaded,
                   mountL>>

\* onCancelEdit
CancelEdit ==
    /\ Settled /\ showViewsModal
    /\ \E i \in 1..Len(savedViews) : savedViews[i].id = editingView
    /\ editingView' = NoView
    /\ UNCHANGED <<exportVars, dataVars, themeVars, chatVars, activeTab, dateRange, savedViews, storage, now, newViewName,
                   showSaveModal, showViewsModal, editName, effects, queued, loaded, mountL>>

\* handleRenameView(view.id) of the i-th view, which is being edited
handleRenameView(i) ==
    /\ Settled /\ showViewsModal /\ i \in 1..Len(savedViews)
    /\ savedViews[i].id = editingView
    /\ IF Trim(editName) = ""
       THEN UNCHANGED vars
       ELSE /\ savedViews' = SetName(savedViews, savedViews[i].id, Trim(editName))
            /\ storage' = Item(savedViews')
            /\ editingView' = NoView /\ editName' = ""
            /\ mountL' = NoItem
            /\ UNCHANGED <<exportVars, dataVars, themeVars, chatVars, activeTab, dateRange, now, newViewName,
                           showSaveModal, showViewsModal, effects, queued, loaded>>

\* ---------------------------------------------------------------------------
\* ThemeProvider (contexts/ThemeContext.tsx) under the Dashboard header

\* localStorage item 'theme': absent, or the string that was stored
NoTheme == ""
StoredThemes == {NoTheme, "light", "dark"}

\* getInitialTheme, in the browser
getInitialTheme(saved, prefers) ==
    IF saved # NoTheme THEN saved
    ELSE IF prefers THEN "dark"
    ELSE "dark"

ThemeSettled == themeFx = "idle"

InitTheme(saved, prefers, cls) ==
    /\ themeItem = saved /\ prefersDark = prefers /\ darkClass = cls
    /\ theme = getInitialTheme(saved, prefers)
    /\ mounted = FALSE /\ themeFx = "effects"

\* the two effects after the first render: the first calls setMounted(true)
\* and sets the class, the second finds mounted false and does nothing
ThemeMountEffects ==
    /\ themeFx = "effects"
    /\ darkClass' = (theme = "dark")
    /\ themeFx' = "render"
    /\ UNCHANGED <<exportVars, dataVars, activeTab, viewVars, chatVars, theme, mounted, themeItem,
                   prefersDark>>

\* the render that follows setMounted(true)
ThemeRenderMounted ==
    /\ themeFx = "render"
    /\ mounted' = TRUE
    /\ themeFx' = "persist"
    /\ UNCHANGED <<exportVars, dataVars, activeTab, viewVars, chatVars, theme, themeItem, darkClass,
                   prefersDark>>

\* the effect on [theme, mounted], with mounted true
ThemePersistEffect ==
    /\ themeFx = "persist"
    /\ themeItem' = theme
    /\ darkClass' = (theme = "dark")
    /\ themeFx' = "idle"
    /\ UNCHANGED <<exportVars, dataVars, activeTab, viewVars, chatVars, theme, mounted, prefersDark>>

toggleThemeNoPersist ==
    /\ themeFx # "effects" /\ ~showSaveModal /\ ~showViewsModal
    /\ theme' = IF theme = "light" THEN "dark" ELSE "light"
    /\ mounted' = TRUE
    /\ darkClass' = (theme' = "dark")
    /\ themeFx' = "idle"
    /\ UNCHANGED <<exportVars, dataVars, activeTab, viewVars, chatVars, themeItem, prefersDark>>

\* toggleTheme from the button of the header, with the render and the effect
\* that follow it; a pending setMounted(true) is rendered with it
toggleTheme ==
    /\ themeFx # "effects" /\ ~showSaveModal /\ ~showViewsModal
    /\ theme' = IF theme = "light" THEN "dark" ELSE "light"
    /\ mounted' = TRUE
    /\ themeItem' = theme'
    /\ darkClass' = (theme' = "dark")
    /\ themeFx' = "idle"
    /\ UNCHANGED <<exportVars, dataVars, activeTab, viewVars, chatVars, prefersDark>>

\* the colour scheme of the system changes; nothing listens to it
SystemPrefers(p) ==
    /\ p # prefersDark
    /\ prefersDark' = p
    /\ UNCHANGED <<exportVars, dataVars, activeTab, viewVars, chatVars, theme, mounted, themeItem,
                   darkClass, themeFx>>

\* the page is loaded again: the provider and the Dashboard start over on a
\* new document, storage stays
ReloadPage ==
    /\ theme' = getInitialTheme(themeItem, prefersDark)
    /\ mounted' = FALSE /\ themeFx' = "effects"
    /\ darkClass' \in BOOLEAN
    /\ ReloadDashboard
    /\ UNCHANGED <<exportVars, dataVars, chatVars, storage, now, themeItem, prefersDark>>

\* ---------------------------------------------------------------------------
\* ProfessionalAssistant (components/ProfessionalAssistant.tsx), panel open

\* what the user types into the input
Inputs == {"", " ", "q"}
\* String.prototype.trim() on those
TrimInput(s) == IF s = " " THEN "" ELSE s

\* the quick action of a loaded document and the example question
QuickAction == "Summarize this document"
Example == "example"

\* file names, one character per element
Chars(n) ==
    CASE n = 1 -> <<"a", ".", "P", "D", "F">>
      [] n = 2 -> <<"a", ".", "p", "d", "f", ".", "e", "x", "e">>
      [] n = 3 -> <<"p", "d", "f">>
      [] n = 4 -> <<"a", ".", "t", "x", "t">>
      [] n = 5 -> <<"a", ".", "d", "o", "c", "x">>
      [] n = 6 -> <<"a", ".", "p", "d", "f">>
      [] OTHER -> <<"a", ".", "d", "o", "c">>
FileNames == {Chars(n) : n \in 1..MaxFiles}

\* String.prototype.lastIndexOf('.'), counted from 0; -1 when there is none
RECURSIVE LastIndexOfDot(_, _)
LastIndexOfDot(name, k) ==
    IF k = 0 THEN -1
    ELSE IF name[k] = "." THEN k - 1
    ELSE LastIndexOfDot(name, k - 1)

\* String.prototype.substring(from): a negative from counts as 0
Substring(name, from) ==
    LET f == IF from < 0 THEN 0 ELSE from
    IN  SubSeq(name, f + 1, Len(name))

ToLowerChar(c) ==
    CASE c = "P" -> "p" [] c = "D" -> "d" [] c = "F" -> "f" [] c = "T" -> "t"
      [] c = "X" -> "x" [] c = "O" -> "o" [] c = "C" -> "c" [] OTHER -> c
ToLowerCase(name) == [k \in 1..Len(name) |-> ToLowerChar(name[k])]

allowedTypes ==
    {<<".", "p", "d", "f">>, <<".", "d", "o", "c", "x">>, <<".", "t", "x", "t">>}
fileExt(name) == ToLowerCase(Substring(name, LastIndexOfDot(name, Len(name))))

\* uploadedDocument: null, or the document the server answered with
NoDoc == [has |-> FALSE, filename |-> <<>>, content |-> ""]
Doc(name, content) == [has |-> TRUE, filename |-> name, content |-> content]
\* response.data.document_content || ''
Contents == {"text"}

User(text) == [role |-> "user", content |-> text]
Assistant(text) == [role |-> "assistant", content |-> text]
Asked == "What would you like to know"

\* a request to one of the two chat endpoints
ChatRequest(query, upl) ==
    [url |-> IF upl.has THEN "/api/chat-with-document" ELSE "/api/chat",
     query |-> query, document |-> upl]

RemoveAt(seq, k) == SubSeq(seq, 1, k - 1) \o SubSeq(seq, k + 1, Len(seq))

\* room left in the conversation and on the wire
Room == Len(messages) < MaxMessages

\* the upload modal lies over the panel
PanelFree == ~showUploadModal

InitChat ==
    /\ messages = <<>> /\ inputValue = "" /\ isLoading = FALSE /\ isUploading = FALSE
    /\ showUploadModal = FALSE /\ uploadedDocument = NoDoc /\ exampleQuestions = <<>>
    /\ timers = <<>> /\ chatReqs = <<>> /\ uploadReqs = <<>>
    /\ overviewReqs = 1 /\ examplesReq = TRUE

\* the answer to GET /api/overview of loadDatasetInfo, at mount or after New Chat
OverviewReturned(ok) ==
    /\ overviewReqs > 0
    /\ overviewReqs' = overviewReqs - 1
    /\ messages' = IF ok THEN <<Assistant("Welcome")>> ELSE <<Assistant("Hello")>>
    /\ UNCHANGED <<exportVars, dataVars, activeTab, viewVars, themeVars, inputValue, isLoading,
                   isUploading, showUploadModal, uploadedDocument, exampleQuestions, timers,
                   chatReqs, uploadReqs, examplesReq>>

\* the answer to GET /api/example-questions of loadExamples
ExamplesReturned(ok) ==
    /\ examplesReq
    /\ examplesReq' = FALSE
    /\ exampleQuestions' = IF ok THEN <<Example>> ELSE exampleQuestions
    /\ UNCHANGED <<exportVars, dataVars, activeTab, viewVars, themeVars, messages, inputValue,
                   isLoading, isUploading, showUploadModal, uploadedDocument, timers,
                   chatReqs, uploadReqs, overviewReqs>>

\* the input, disabled while a request or an upload runs
TypeInput(s) ==
    /\ PanelFree /\ ~isLoading /\ ~isUploading /\ s # inputValue
    /\ inputValue' = s
    /\ UNCHANGED <<exportVars, dataVars, activeTab, viewVars, themeVars, messages, isLoading,
                   isUploading, showUploadModal, uploadedDocument, exampleQuestions, timers,
                   chatReqs, uploadReqs, overviewReqs, examplesReq>>

\* the body of handleSend up to its await, over the inputValue, isLoading and
\* uploadedDocument of the render that made it
Send(input, busy, upl) ==
    IF TrimInput(input) = "" \/ busy
    THEN UNCHANGED <<messages, inputValue, isLoading, chatReqs>>
    ELSE /\ Room /\ Len(chatReqs) < MaxChats
         /\ messages' = Append(messages, User(input))
         /\ inputValue' = ""
         /\ isLoading' = TRUE
         /\ chatReqs' = Append(chatReqs, ChatRequest(input, upl))

\* handleSend from the Send button or the Enter key of the input
handleSend ==
    /\ PanelFree /\ ~isLoading /\ ~isUploading
    /\ Send(inputValue, isLoading, uploadedDocument)
    /\ UNCHANGED <<exportVars, dataVars, activeTab, viewVars, themeVars, isUploading,
                   showUploadModal, uploadedDocument, exampleQuestions, timers, uploadReqs,
                   overviewReqs, examplesReq>>

\* the rest of handleSend: the answer, the apology for an empty answer, or
\* the text of the catch block, then finally setIsLoading(false)
ChatReturned(k, r) ==
    /\ k \in 1..Len(chatReqs) /\ Room
    /\ messages' = Append(messages,
                          Assistant(CASE r = "answer" -> "answer"
                                      [] r = "empty" -> "I apologize"
                                      [] OTHER -> "trouble connecting"))
    /\ isLoading' = FALSE
    /\ chatReqs' = RemoveAt(chatReqs, k)
    /\ UNCHANGED <<exportVars, dataVars, activeTab, viewVars, themeVars, inputValue, isUploading,
                   showUploadModal, uploadedDocument, exampleQuestions, timers, uploadReqs,
                   overviewReqs, examplesReq>>

\* the quick actions are shown under the message that follows an upload
QuickActionsShown ==
    /\ uploadedDocument.has /\ messages # <<>>
    /\ messages[Len(messages)] = Assistant(Asked)

\* the example questions are shown early in a conversation without document
ExamplesShown ==
    exampleQuestions # <<>> /\ Len(messages) <= 2 /\ ~uploadedDocument.has

\* handleQuickQuestion: setInputValue(question), then setTimeout of the
\* handleSend of this render
handleQuickQuestion(q) ==
    /\ PanelFree /\ Len(timers) < MaxTimers
    /\ \/ QuickActionsShown /\ q = QuickAction
       \/ ExamplesShown /\ q = Example
    /\ inputValue' = q
    /\ timers' = Append(timers, [question |-> q, inputValue |-> inputValue,
                                 isLoading |-> isLoading,
                                 uploadedDocument |-> uploadedDocument])
    /\ UNCHANGED <<exportVars, dataVars, activeTab, viewVars, themeVars, messages, isLoading,
                   isUploading, showUploadModal, uploadedDocument, exampleQuestions,
                   chatReqs, uploadReqs, overviewReqs, examplesReq>>

\* the timeout of handleQuickQuestion runs out
TimerFires(k) ==
    /\ k \in 1..Len(timers)
    /\ Send(timers[k].inputValue, timers[k].isLoading, timers[k].uploadedDocument)
    /\ timers' = RemoveAt(timers, k)
    /\ UNCHANGED <<exportVars, dataVars, activeTab, viewVars, themeVars, isUploading,
                   showUploadModal, uploadedDocument, exampleQuestions, uploadReqs,
                   overviewReqs, examplesReq>>

handleNewChat ==
    /\ PanelFree /\ overviewReqs < MaxOverviews
    /\ messages' = <<>>
    /\ inputValue' = ""
    /\ uploadedDocument' = NoDoc
    /\ overviewReqs' = overviewReqs + 1
    /\ UNCHANGED <<exportVars, dataVars, activeTab, viewVars, themeVars, isLoading, isUploading,
                   showUploadModal, exampleQuestions, timers, chatReqs, uploadReqs,
                   examplesReq>>

\* the X next to the name of the loaded document
ClearDocument ==
    /\ PanelFree /\ uploadedDocument.has
    /\ uploadedDocument' = NoDoc
    /\ UNCHANGED <<exportVars, dataVars, activeTab, viewVars, themeVars, messages, inputValue,
                   isLoading, isUploading, showUploadModal, exampleQuestions, timers,
                   chatReqs, uploadReqs, overviewReqs, examplesReq>>

\* the Upload Document button, and the X of the modal
SetShowUploadModal(b) ==
    /\ b # showUploadModal
    /\ showUploadModal' = b
    /\ UNCHANGED <<exportVars, dataVars, activeTab, viewVars, themeVars, messages, inputValue,
                   isLoading, isUploading, uploadedDocument, exampleQuestions, timers,
                   chatReqs, uploadReqs, overviewReqs, examplesReq>>

handleFileUploadAnyType(name) ==
    /\ showUploadModal /\ Room /\ Len(uploadReqs) < MaxRequests
    /\ messages' = Append(messages, User("Uploaded document"))
    /\ isUploading' = TRUE
    /\ showUploadModal' = FALSE
    /\ uploadReqs' = Append(uploadReqs, name)
    /\ UNCHANGED <<exportVars, dataVars, activeTab, viewVars, themeVars, inputValue, isLoading,
                   uploadedDocument, exampleQuestions, timers, chatReqs, overviewReqs,
                   examplesReq>>

\* handleFileUpload up to its await; the file is chosen from the modal
handleFileUpload(name) ==
    /\ showUploadModal /\ Room
    /\ IF fileExt(name) \notin allowedTypes
       THEN /\ messages' = Append(messages, Assistant("Unsupported file type"))
            /\ UNCHANGED <<isUploading, showUploadModal, uploadReqs>>
       ELSE /\ Len(uploadReqs) < MaxRequests
            /\ messages' = Append(messages, User("Uploaded document"))
            /\ isUploading' = TRUE
            /\ showUploadModal' = FALSE
            /\ uploadReqs' = Append(uploadReqs, name)
    /\ UNCHANGED <<exportVars, dataVars, activeTab, viewVars, themeVars, inputValue, isLoading,
                   uploadedDocument, exampleQuestions, timers, chatReqs, overviewReqs,
                   examplesReq>>

\* the rest of handleFileUpload: the document is kept and the user is asked
\* what to do with it, or the error is shown; finally setIsUploading(false)
UploadReturned(k, ok, content) ==
    /\ k \in 1..Len(uploadReqs) /\ Room
    /\ IF ok
       THEN /\ uploadedDocument' = Doc(uploadReqs[k], content)
            /\ messages' = Append(messages, Assistant(Asked))
       ELSE /\ messages' = Append(messages, Assistant("Error uploading document"))
            /\ UNCHANGED uploadedDocument
    /\ isUploading' = FALSE
    /\ uploadReqs' = RemoveAt(uploadReqs, k)
    /\ UNCHANGED <<exportVars, dataVars, activeTab, viewVars, themeVars, inputValue, isLoading,
                   showUploadModal, exampleQuestions, timers, chatReqs, overviewReqs,
                   examplesReq>>

\* ---------------------------------------------- Dashboard data and charts
\* Dates of the data requests are day codes; 0 is the empty string.
PickedFrom == {Fallback2023}
PickedTo == {Today}
Range(f, t) == [from |-> f, to |-> t]

\* a timestamp 'YYYY-MM-DDTHH:MM:SS' of the backend, and s.split('T')[0]
Stamp(d) == [day |-> d, time |-> "00:00:00"]
NoStamp == [day |-> 0, time |-> ""]
SplitT(s) == s.day

\* what GET /api/overview answers initializeDateRange with: the request
\* fails, or the body has no date_range, a date_range without min, or a
\* date_range whose min is a timestamp
InitResponses ==
    {[ok |-> FALSE, hasRange |-> FALSE, min |-> NoStamp],
     [ok |-> TRUE, hasRange |-> FALSE, min |-> NoStamp],
     [ok |-> TRUE, hasRange |-> TRUE, min |-> NoStamp],
     [ok |-> TRUE, hasRange |-> TRUE, min |-> Stamp(Fallback2016)]}

\* overview is null, or the body of the response to the request for a range
NoOverview == [has |-> FALSE, of |-> Range(0, 0)]
OverviewOf(r) == [has |-> TRUE, of |-> r]

\* dateRange.from && dateRange.to
RangeSet(r) == r.from # 0 /\ r.to # 0

\* ---- the chart components of the last tab
Advanced == NumTabs
ChartIds == {"QuarterlyComparison", "TagsTrends"}

\* item.quarter of /api/quarterly-comparison: a string given by its pieces,
\* or a number
Str(s) == [type |-> "string", s |-> s, n |-> 0]
Num(n) == [type |-> "number", s |-> <<>>, n |-> n]
QuarterNames == <<"Q1", "Q2", "Q3", "Q4">>
YearText(y) == IF y = 2023 THEN "2023" ELSE "2024"
Dashed(y, q) == <<YearText(y), "-", q>>
Includes(s, ch) == \E i \in 1..Len(s) : s[i] = ch
\* s.split('-')[1]
SplitDash1(s) == s[(CHOOSE i \in 1..Len(s) : s[i] = "-" /\ \A j \in 1..(i - 1) : s[j] # "-") + 1]
\* lines 39-44 of QuarterlyComparison.fetchData
QuarterLabel(q) ==
    IF q.type = "string" /\ Includes(q.s, "-") THEN SplitDash1(q.s)
    ELSE IF q.type = "number" THEN QuarterNames[q.n]
    ELSE q.s[1]

\* A row object of a pivot: its x value and, in the order of Object.keys,
\* its other properties.
HasKey(cells, k) == \E i \in 1..Len(cells) : cells[i].key = k
Cell(k, v) == [key |-> k, value |-> v]
\* obj[k] = v for a key that is no array index: a new key goes last
PutKey(cells, k, v) ==
    IF HasKey(cells, k)
    THEN [i \in 1..Len(cells) |-> IF cells[i].key = k THEN Cell(k, v) ELSE cells[i]]
    ELSE Append(cells, Cell(k, v))
\* obj[`${year}`] = v: integer keys are kept in ascending order
PutIndex(cells, k, v) ==
    IF HasKey(cells, k)
    THEN [i \in 1..Len(cells) |-> IF cells[i].key = k THEN Cell(k, v) ELSE cells[i]]
    ELSE SelectSeq(cells, LAMBDA c : c.key < k) \o <<Cell(k, v)>>
             \o SelectSeq(cells, LAMBDA c : c.key > k)
ObjectKeys(cells) == [i \in 1..Len(cells) |-> cells[i].key]

\* rawData.forEach of QuarterlyComparison over the first n items; the map
\* is kept as its values in insertion order
RECURSIVE quarterMap(_, _)
quarterMap(rawData, n) ==
    IF n = 0 THEN <<>>
    ELSE LET m == quarterMap(rawData, n - 1)
             item == rawData[n]
             quarter == QuarterLabel(item.quarter)
             known == \E i \in 1..Len(m) : m[i].quarter = quarter
             m1 == IF known THEN m ELSE Append(m, [quarter |-> quarter, cells |-> <<>>])
             at == CHOOSE i \in 1..Len(m1) : m1[i].quarter = quarter
         IN  [m1 EXCEPT ![at].cells = PutIndex(@, item.year, item.documents)]

qOrder(q) == CHOOSE i \in 1..4 : QuarterNames[i] = q
\* Array.prototype.sort with the qOrder comparator is stable
SortByQuarter(rows) ==
    SelectSeq(rows, LAMBDA r : qOrder(r.quarter) = 1)
        \o SelectSeq(rows, LAMBDA r : qOrder(r.quarter) = 2)
        \o SelectSeq(rows, LAMBDA r : qOrder(r.quarter) = 3)
        \o SelectSeq(rows, LAMBDA r : qOrder(r.quarter) = 4)

\* rawData.forEach of TagsTrends over the first n items
RECURSIVE periodMap(_, _)
periodMap(rawData, n) ==
    IF n = 0 THEN <<>>
    ELSE LET m == periodMap(rawData, n - 1)
             item == rawData[n]
             known == \E i \in 1..Len(m) : m[i].period = item.period
             m1 == IF known THEN m ELSE Append(m, [period |-> item.period, cells |-> <<>>])
             at == CHOOSE i \in 1..Len(m1) : m1[i].period = item.period
         IN  [m1 EXCEPT ![at].cells = PutKey(@, item.tag, item.count)]

\* what setData is called with on a successful response
Transformed(c, rawData) ==
    IF c = "QuarterlyComparison" THEN SortByQuarter(quarterMap(rawData, Len(rawData)))
    ELSE periodMap(rawData, Len(rawData))

\* const years / const tags of the render, and the <Line> elements
years(data) == IF Len(data) > 0 THEN ObjectKeys(data[1].cells) ELSE <<>>
tags(data) == IF Len(data) > 0 THEN ObjectKeys(data[1].cells) ELSE <<>>
Slice10(s) == SubSeq(s, 1, IF Len(s) < 10 THEN Len(s) ELSE 10)
Lines(c, data) ==
    IF c = "QuarterlyComparison" THEN years(data) ELSE Slice10(tags(data))

\* bodies of the chart endpoints
Years == {2023, 2024}
Counts == {1, 2}
QuarterItems(form) ==
    {[year |-> y,
      quarter |-> IF form = "dashed" THEN Str(Dashed(y, QuarterNames[k])) ELSE Num(k),
      documents |-> n] : y \in Years, k \in 1..4, n \in Counts}
TagItems == {[period |-> p, tag |-> t, count |-> n] :
                p \in {"2024-01", "2024-02"}, t \in {"ai", "privacy"}, n \in Counts}
SeqsUpTo(S, n) == UNION {[1..k -> S] : k \in 0..n}
\* every body up to MaxRows items
RawInputs(c) ==
    IF c = "QuarterlyComparison"
    THEN SeqsUpTo(QuarterItems("dashed"), MaxRows) \cup SeqsUpTo(QuarterItems("number"), MaxRows)
    ELSE SeqsUpTo(TagItems, MaxRows)
\* one body with rows per chart
Backend(c) ==
    IF c = "QuarterlyComparison"
    THEN {<<[year |-> 2024, quarter |-> Str(Dashed(2024, "Q1")), documents |-> 1]>>}
    ELSE {<<[period |-> "2024-01", tag |-> "ai", count |-> 1]>>}

\* a chart component that is not mounted, and one just mounted; of and raw
\* record the request and the body the data on display came from
Unmounted == [on |-> FALSE, data |-> <<>>, loading |-> TRUE, of |-> Range(0, 0), raw |-> <<>>]
Mounted == [Unmounted EXCEPT !.on = TRUE]

DataRoom ==
    /\ Len(fetches) < MaxFetches
    /\ \A c \in ChartIds : Len(chartFetches[c]) < MaxFetches

\* the page after its mount effects: initializeDateRange has sent its
\* request, the effect on [dateRange] found the range empty
InitData ==
    /\ overview = NoOverview /\ loading = TRUE /\ liveDataStatus = TRUE
    /\ initReq = TRUE /\ fetches = <<>>
    /\ chartState = [c \in ChartIds |-> Unmounted]
    /\ chartFetches = [c \in ChartIds |-> <<>>]

\* the effects on [dateRange] after setDateRange(r): fetchOverview when both
\* dates are set, and fetchData of every mounted chart
DateRangeEffects(r) ==
    /\ IF RangeSet(r)
       THEN loading' = TRUE /\ fetches' = Append(fetches, r)
       ELSE UNCHANGED <<loading, fetches>>
    /\ chartState' = [c \in ChartIds |->
           IF chartState[c].on THEN [chartState[c] EXCEPT !.loading = TRUE]
           ELSE chartState[c]]
    /\ chartFetches' = [c \in ChartIds |->
           IF chartState[c].on THEN Append(chartFetches[c], r) ELSE chartFetches[c]]

\* the response to initializeDateRange's request
InitReturned(resp) ==
    /\ initReq /\ DataRoom
    /\ initReq' = FALSE
    /\ IF resp.ok /\ ~resp.hasRange
       THEN UNCHANGED <<dateRange, loading, fetches, chartState, chartFetches>>
       ELSE LET minDate == IF SplitT(resp.min) # 0 THEN SplitT(resp.min) ELSE Fallback2023
                r == IF resp.ok THEN Range(minDate, Today) ELSE Range(Fallback2016, Today)
            IN  dateRange' = r /\ DateRangeEffects(r)
    /\ UNCHANGED <<exportVars, activeTab, themeVars, chatVars, overview, liveDataStatus,
                   savedViews, storage, now, newViewName, showSaveModal, showViewsModal,
                   editingView, editName, effects, queued, loaded, mountL>>

\* the date inputs, with the effects their setDateRange sets off
ChangeDateFrom(d) ==
    /\ DataRoom /\ d # dateRange.from
    /\ dateRange' = [dateRange EXCEPT !.from = d]
    /\ DateRangeEffects(dateRange')
    /\ loaded' = NotLoaded
    /\ UNCHANGED <<exportVars, activeTab, themeVars, chatVars, overview, liveDataStatus,
                   initReq, savedViews, storage, now, newViewName, showSaveModal,
                   showViewsModal, editingView, editName, effects, queued, mountL>>

ChangeDateTo(d) ==
    /\ DataRoom /\ d # dateRange.to
    /\ dateRange' = [dateRange EXCEPT !.to = d]
    /\ DateRangeEffects(dateRange')
    /\ loaded' = NotLoaded
    /\ UNCHANGED <<exportVars, activeTab, themeVars, chatVars, overview, liveDataStatus,
                   initReq, savedViews, storage, now, newViewName, showSaveModal,
                   showViewsModal, editingView, editName, effects, queued, mountL>>

\* the Apply button calls fetchOverview whatever the range is
Apply ==
    /\ DataRoom
    /\ loading' = TRUE
    /\ fetches' = Append(fetches, dateRange)
    /\ UNCHANGED <<exportVars, activeTab, viewVars, themeVars, chatVars, overview,
                   liveDataStatus, initReq, chartState, chartFetches>>

\* the k-th fetchOverview in flight settles
FetchOverviewReturned(k, ok) ==
    /\ k \in 1..Len(fetches)
    /\ fetches' = RemoveAt(fetches, k)
    /\ IF ok
       THEN overview' = OverviewOf(fetches[k]) /\ liveDataStatus' = TRUE
       ELSE overview' = overview /\ liveDataStatus' = FALSE
    /\ loading' = FALSE
    /\ UNCHANGED <<exportVars, activeTab, viewVars, themeVars, chatVars, initReq,
                   chartState, chartFetches>>

\* a tab button: the charts of the last tab are mounted when it is opened,
\* each running fetchData, and unmounted when it is left
OpenTab(t) ==
    /\ UserClickTab(t)
    /\ loaded' = NotLoaded
    /\ IF t = Advanced
       THEN /\ chartState' = [c \in ChartIds |-> Mounted]
            /\ chartFetches' = [c \in ChartIds |-> <<dateRange>>]
       ELSE /\ chartState' = [c \in ChartIds |-> Unmounted]
            /\ chartFetches' = [c \in ChartIds |-> <<>>]
    /\ UNCHANGED <<themeVars, chatVars, overview, loading, liveDataStatus, initReq,
                   fetches, dateRange, savedViews, storage, now, newViewName,
                   showSaveModal, showViewsModal, editingView, editName, effects, queued,
                   mountL>>

\* the k-th fetchData of chart c in flight settles, with body rawData
ChartReturned(c, k, ok, rawData) ==
    /\ k \in 1..Len(chartFetches[c])
    /\ chartFetches' = [chartFetches EXCEPT ![c] = RemoveAt(@, k)]
    /\ chartState' = [chartState EXCEPT ![c] =
           IF ok THEN [@ EXCEPT !.data = Transformed(c, rawData), !.loading = FALSE,
                                !.of = chartFetches[c][k], !.raw = rawData]
           ELSE [@ EXCEPT !.loading = FALSE]]
    /\ UNCHANGED <<exportVars, activeTab, viewVars, themeVars, chatVars, overview,
                   loading, liveDataStatus, initReq, fetches>>

Init ==
    /\ InitExport /\ InitViews(NoItem) /\ InitTheme(NoTheme, TRUE, FALSE) /\ InitChat
    /\ InitData

\* one export
Next ==
    \/ ToggleDropdown /\ UNCHANGED otherVars
    \/ \E t \in Tabs : UserClickTab(t) /\ UNCHANGED otherVars
    \/ \E c \in BOOLEAN, d \in BOOLEAN, l \in ChartLists(MaxCharts) :
          StartPanel(c, d, l) /\ UNCHANGED otherVars
    \/ \E d \in BOOLEAN : StartDashboard(d) /\ UNCHANGED otherVars
    \/ \E c \in BOOLEAN, l \in ChartLists(Budget) : AfterWait(c, l) /\ UNCHANGED otherVars
    \/ \E cv \in Canvases : CaptureResolved(cv) /\ UNCHANGED otherVars
    \/ CaptureRejected /\ UNCHANGED otherVars
    \/ \E r \in InsightOutcomes : InsightsReturned(r) /\ UNCHANGED otherVars
    \/ \E l \in SectionLists(MaxCharts) : StartReport(l) /\ UNCHANGED otherVars
    \/ \E cv \in Canvases : ReportCaptureResolved(cv) /\ UNCHANGED otherVars
    \/ ReportCaptureRejected /\ UNCHANGED otherVars

Spec == Init /\ [][Next]_vars

\* exports one after the other, the later ones under the answers of the first
NextAgain == Next \/ (ExportAgain /\ UNCHANGED otherVars)

SpecAgain == Init /\ [][NextAgain]_vars

\* the Dashboard with its saved views, no export running
InitSaved ==
    /\ InitExport
    /\ \E item \in StoredItems : InitViews(item)
    /\ InitTheme(NoTheme, TRUE, FALSE)
    /\ InitChat
    /\ InitData

NextSaved ==
    \/ MountEffects
    \/ RenderLoaded
    \/ PersistEffect
    \/ Reload
    \/ \E d \in Dates : SetDateFrom(d)
    \/ \E d \in Dates : SetDateTo(d)
    \/ \E t \in Tabs : ClickTab(t)
    \/ OpenSaveModal
    \/ CancelSave
    \/ \E n \in Names : TypeViewName(n)
    \/ \E t \in 1..MaxClock : handleSaveView(t)
    \/ ToggleViewsModal
    \/ \E i \in 1..MaxViews : handleLoadView(i)
    \/ \E i \in 1..MaxViews, ok \in BOOLEAN : handleDeleteView(i, ok)
    \/ \E i \in 1..MaxViews : handleToggleFavorite(i)
    \/ \E i \in 1..MaxViews : startEditing(i)
    \/ \E n \in Names : TypeEditName(n)
    \/ CancelEdit
    \/ \E i \in 1..MaxViews : handleRenameView(i)

SpecSaved == InitSaved /\ [][NextSaved]_vars

\* the Dashboard header under the ThemeProvider
InitThemed ==
    /\ InitExport
    /\ \E item \in StoredItems : InitViews(item)
    /\ InitChat
    /\ InitData
    /\ \E s \in StoredThemes, p \in BOOLEAN, c \in BOOLEAN : InitTheme(s, p, c)

NextThemed ==
    \/ ThemeMountEffects
    \/ ThemeRenderMounted
    \/ ThemePersistEffect
    \/ toggleTheme
    \/ \E p \in BOOLEAN : SystemPrefers(p)
    \/ ReloadPage
    \/ MountEffects
    \/ RenderLoaded
    \/ PersistEffect
    \/ \E d \in Dates : SetDateFrom(d)
    \/ \E d \in Dates : SetDateTo(d)
    \/ \E t \in Tabs : ClickTab(t)

SpecThemed == InitThemed /\ [][NextThemed]_vars

\* the assistant alone
InitAssistant ==
    /\ InitExport
    /\ InitViews(NoItem)
    /\ InitTheme(NoTheme, TRUE, FALSE)
    /\ InitChat
    /\ InitData

NextAssistant ==
    \/ \E ok \in BOOLEAN : OverviewReturned(ok)
    \/ \E ok \in BOOLEAN : ExamplesReturned(ok)
    \/ \E s \in Inputs : TypeInput(s)
    \/ handleSend
    \/ \E k \in 1..MaxChats, r \in {"answer", "empty", "error"} : ChatReturned(k, r)
    \/ \E q \in {QuickAction, Example} : handleQuickQuestion(q)
    \/ \E k \in 1..MaxTimers : TimerFires(k)
    \/ handleNewChat
    \/ ClearDocument
    \/ \E b \in BOOLEAN : SetShowUploadModal(b)
    \/ \E name \in FileNames : handleFileUpload(name)
    \/ \E k \in 1..MaxRequests, ok \in BOOLEAN, c \in Contents : UploadReturned(k, ok, c)

SpecAssistant == InitAssistant /\ [][NextAssistant]_vars

\* the Dashboard's data and the charts of the last tab, no export running;
\* the dates the user picks are those of PickedFrom and PickedTo
NextData ==
    \/ \E resp \in InitResponses : InitReturned(resp)
    \/ \E d \in PickedFrom : ChangeDateFrom(d)
    \/ \E d \in PickedTo : ChangeDateTo(d)
    \/ Apply
    \/ \E k \in 1..MaxFetches, ok \in BOOLEAN : FetchOverviewReturned(k, ok)
    \/ \E t \in Tabs : OpenTab(t)
    \/ \E c \in ChartIds, k \in 1..MaxFetches, ok \in BOOLEAN :
          \E rawData \in Backend(c) : ChartReturned(c, k, ok, rawData)

SpecData == Init /\ [][NextData]_vars

\* the Dashboard after its mount, the date inputs and Apply left alone while
\* the user goes from tab to tab; a request sent is answered or fails
NextBoot ==
    \/ \E resp \in InitResponses : InitReturned(resp)
    \/ \E k \in 1..MaxFetches, ok \in BOOLEAN : FetchOverviewReturned(k, ok)
    \/ \E t \in Tabs : OpenTab(t)
    \/ \E c \in ChartIds, k \in 1..MaxFetches, ok \in BOOLEAN :
          \E rawData \in Backend(c) : ChartReturned(c, k, ok, rawData)

SpecBoot ==
    /\ Init /\ [][NextBoot]_vars
    /\ WF_vars(\E resp \in InitResponses : InitReturned(resp))
    /\ WF_vars(\E k \in 1..MaxFetches, ok \in BOOLEAN : FetchOverviewReturned(k, ok))
    /\ WF_vars(\E c \in ChartIds, k \in 1..MaxFetches, ok \in BOOLEAN :
                   \E rawData \in Backend(c) : ChartReturned(c, k, ok, rawData))

\* the charts of the last tab under every body of their endpoints
NextPivot ==
    \/ \E t \in Tabs : OpenTab(t)
    \/ \E c \in ChartIds, k \in 1..MaxFetches :
          \E rawData \in RawInputs(c) : ChartReturned(c, k, TRUE, rawData)

SpecPivot == Init /\ [][NextPivot]_vars

\* ----------------------------------------------------------- observations
Images(d) == SelectSeq(d, LAMBDA b : b.kind = "image")
KeysOf(s) == [i \in 1..Len(s) |-> s[i].key]

\* the sections of a NodeList: the chart cards in document order, each once,
\* elements without a card and the KPI wrapper left out
RECURSIVE ChartSections(_, _, _)
ChartSections(list, tab, seen) ==
    IF list = <<>> THEN <<>>
    ELSE IF Head(list) = NoParent \/ Head(list) \in seen \/ HasKPIClass(Head(list), tab)
         THEN ChartSections(Tail(list), tab, seen)
         ELSE <<Key(tab, Head(list))>>
                  \o ChartSections(Tail(list), tab, seen \cup {Head(list)})

\* the sections of generatePDFReport that have a visible element
ReportSections(list, tab) ==
    LET all == [j \in 1..Len(list) |-> [key |-> Key(tab, j), state |-> list[j]]]
    IN  KeysOf(SelectSeq(all, LAMBDA x : x.state = "present"))

EntrySections(e) ==
    IF e[1] = "panel" THEN ChartSections(e[5], e[2], {})
    ELSE IF e[1] = "lookup" THEN ChartSections(e[4], e[2], {})
    ELSE IF e[1] = "report" THEN ReportSections(e[3], e[2])
    ELSE <<>>

\* all sections the export was given, in order
RECURSIVE SectionList(_)
SectionList(sc) ==
    IF sc = <<>> THEN <<>> ELSE EntrySections(Head(sc)) \o SectionList(Tail(sc))

\* what html2canvas answered, call by call
Outcomes(sc) == SelectSeq(sc, LAMBDA e : e[1] \in {"canvas", "reject"})

\* the sections whose capture succeeded, in order
Captured(sc) ==
    LET o == Outcomes(sc)
        s == SectionList(sc)
        both == [i \in 1..Min(Len(o), Len(s)) |-> [key |-> s[i], ok |-> o[i][1] = "canvas"]]
    IN  KeysOf(SelectSeq(both, LAMBDA x : x.ok))

CaptureFailed == \E i \in 1..Len(script) : script[i][1] = "reject"
FailedCaptures == SelectSeq(logs, LAMBDA l : l.what = "Failed to capture chart")
FailedInsights == SelectSeq(logs, LAMBDA l : l.what = "Failed to generate insights")
Separators == SelectSeq(doc, LAMBDA b : b.kind = "separator")
ChartExport == mode \in {"panel", "dashboard"}

C2_FailedSectionLeavesNothing ==
    \A i \in 1..Len(FailedCaptures) :
        \A j \in 1..Len(doc) : doc[j].key # FailedCaptures[i].key

\* C3: every export button hidden before a capture is shown again once the
\* capture attempt is over, whether it succeeded or threw.
C3_ButtonsRestored ==
    pc # "capture" => hiddenBtn \cap hiddenByExport = {}

\* C4: with no section to export the user is told so and no file is saved.
C4_NothingToExport ==
    (pc = "done" /\ SectionList(script) = <<>>) => (alerts # <<>> /\ saves = 0)

\* C5: when the insight request of a section fails, the fixed fallback text
\* is drawn for it, its image stays in the document, and the export goes on
\* through the later sections to the saved document.
C5_InsightFallback ==
    /\ \A i \in 1..Len(FailedInsights) :
          /\ \E j \in 1..Len(doc) :
                doc[j].kind = "image" /\ doc[j].key = FailedInsights[i].key
          /\ \E j \in 1..Len(doc) :
                /\ doc[j].kind = "text" /\ doc[j].key = FailedInsights[i].key
                /\ doc[j].txt = FallbackError[1]
    /\ (pc = "done" /\ FailedInsights # <<>>) =>
          /\ Len(Outcomes(script)) = Len(SectionList(script))
          /\ KeysOf(Images(doc)) = Captured(script)
          /\ saves = 1

\* the insight request of the first section failed; the second section is in
\* the saved document after it
C5_Witness ==
    /\ pc = "done" /\ saves = 1
    /\ Len(FailedInsights) = 1 /\ Len(Images(doc)) = 2
    /\ Images(doc)[1].key = FailedInsights[1].key
    /\ Images(doc)[2].key # FailedInsights[1].key

\* C6: within one export no section is captured twice and no section's
\* insights are requested twice.
C6_AtMostOnce ==
    \A i, j \in 1..Len(requests) : requests[i] = requests[j] => i = j

\* C7: the heading of a section is on the page its image is on.
C7_HeadingWithImage ==
    ChartExport =>
        \A j \in 1..Len(doc) : doc[j].kind = "image" =>
            /\ j > 1
            /\ doc[j - 1].kind = "heading" /\ doc[j - 1].key = doc[j].key
            /\ doc[j - 1].page = doc[j].page

\* C8: every heading, image, insight line and separator lies within the
\* height of the page it is drawn on; the pages of the blocks never go back.
C8_BlocksFitPage ==
    ChartExport =>
        /\ \A j \in 1..Len(doc) :
              doc[j].kind \in {"heading", "image", "insightsHeader", "header", "text",
                               "separator"} =>
                  /\ doc[j].y >= 20 /\ doc[j].y + doc[j].h <= PageHeight
                  /\ doc[j].page \in 1..pages
        /\ \A j \in 2..Len(doc) : doc[j - 1].page <= doc[j].page

\* a paragraph that did not fit: its next line opens a new page
C8_Witness ==
    /\ ChartExport
    /\ \E j \in 2..Len(doc) :
          /\ doc[j].kind = "text" /\ doc[j - 1].kind = "text"
          /\ doc[j].page = doc[j - 1].page + 1 /\ doc[j].y = 20
          /\ doc[j - 1].y + 2 * doc[j - 1].h > PageHeight - 15

\* C9: an export repeated under the same inputs and the same answers of the
\* environment produces the same document, block by block and page by page,
\* and saves as often: once when there is a section.
C9_Deterministic ==
    (pc = "done" /\ runNo > 1) =>
        /\ doc = prevDoc.doc /\ pages = prevDoc.pages /\ saves = prevDoc.saves
        /\ SectionList(script) # <<>> => saves = 1

\* the second export of a panel has ended with an image on a second page
C9_Witness ==
    /\ pc = "done" /\ runNo = 2 /\ saves = 1
    /\ Len(Images(doc)) >= 1 /\ pages >= 2

\* C10: at most one capture or insight request is in flight, and it is the
\* last one issued; while a capture is in flight every earlier section has
\* failed or has its insights drawn down to the separator.
C10_OneAtATime ==
    LET nCap == Cardinality(Captures)
        nIns == Len(requests) - nCap
        nRej == IF ChartExport THEN Len(FailedCaptures)
                ELSE Len(SelectSeq(logs, LAMBDA l : l.what = "Error adding section"))
        last == IF requests = <<>> THEN {} ELSE {requests[Len(requests)]}
    IN  /\ Cardinality(inflight) <= 1
        /\ inflight \subseteq last
        /\ pc \in {"capture", "insight"} <=> inflight # {}
        /\ ChartExport =>
              /\ pc = "capture" => (nCap = nIns + nRej + 1 /\ Len(Separators) = nIns)
              /\ pc = "insight" => (nCap = nIns + nRej /\ Len(Separators) = nIns - 1)
              /\ pc \in {"wait", "done"} => (nCap = nIns + nRej /\ Len(Separators) = nIns)

\* the capture of a second section is in flight after the first section's
\* insights were drawn
C10_Witness ==
    /\ ChartExport /\ pc = "capture"
    /\ Cardinality(Captures) = 2 /\ Len(Separators) = 1
    /\ inflight = {requests[Len(requests)]}

TabTitles == SelectSeq(doc, LAMBDA b : b.kind = "tabTitle")

\* C11: exportWholeDashboard takes the tabs in navigation order; a chart is
\* captured in the iteration of the tab it belongs to, after that tab was
\* clicked and its wait is over; the document is saved after the last tab.
C11_TabOrder ==
    mode = "dashboard" =>
        /\ tabIdx \in 1..NumTabs
        /\ Len(TabTitles) = (IF pc = "wait" THEN tabIdx - 1 ELSE tabIdx)
        /\ \A i \in 1..Len(TabTitles) : TabTitles[i].key.tab = i
        /\ pc \in {"capture", "insight"} => lookupTab = tabIdx
        /\ saves > 0 => (pc = "done" /\ tabIdx = NumTabs)

\* C12: no drawn insight block shows a raw marker: no asterisk and no
\* leading dash of a list item.
C12_NoRawMarkers ==
    \A j \in 1..Len(doc) :
        doc[j].kind \in {"header", "text"} =>
            /\ \A k \in 1..Len(doc[j].txt) : doc[j].txt[k].c # "*"
            /\ doc[j].txt # <<>> => doc[j].txt[1].c # "-"

\* the list without its i-th view
WithoutAt(list, i) == SubSeq(list, 1, i - 1) \o SubSeq(list, i + 1, Len(list))

\* C13: a view that is loaded puts the date range and the active tab back to
\* what they were when it was saved, whatever was changed, saved, renamed,
\* starred or deleted in between
C13_SaveLoadRoundTrip ==
    loaded.has =>
        /\ dateRange = [from |-> loaded.from, to |-> loaded.to]
        /\ activeTab = loaded.tab

\* a view saved in this session is loaded after a reload, from a list of two,
\* with the other view renamed and the page on other values before the load
C13_Witness ==
    /\ loaded.has /\ loaded.tab = 2 /\ loaded.from = 1
    /\ Len(savedViews) = 2
    /\ savedViews[1].name = "a" /\ savedViews[1].saved # loaded
    /\ savedViews[2].saved = loaded /\ savedViews[2].isFavorite

C15_DeleteExactlyOne ==
    [][\A i \in 1..MaxViews, ok \in BOOLEAN :
          handleDeleteView(i, ok) =>
              savedViews' = IF ok THEN WithoutAt(savedViews, i) ELSE savedViews]_vars

\* the theme the system asks for
SystemTheme == IF prefersDark THEN "dark" ELSE "light"

\* C16: a page that loads with no theme in storage starts with the theme of
\* the system: dark when it prefers dark, light when it prefers light
C16_InitialThemeFollowsSystem ==
    [][(ReloadPage /\ themeItem = NoTheme) => theme' = SystemTheme]_vars

\* C17: once the effects have settled, storage holds the current theme and
\* the document has the class 'dark' exactly when the theme is dark; a
\* reload then starts with that theme
C17_ThemePersistent ==
    /\ [](ThemeSettled => (themeItem = theme /\ darkClass = (theme = "dark")))
    /\ [][(ThemeSettled /\ ReloadPage) => theme' = theme]_vars

\* the light theme is on, stored and shown, against the system
C17_Witness ==
    /\ ThemeSettled /\ mounted /\ prefersDark
    /\ theme = "light" /\ themeItem = "light" /\ ~darkClass

\* C18: when the timeout of a quick action or example question runs out, and
\* no request was in flight at the click or is now, the question is appended
\* as a user message and posted to the chat endpoint
C18_QuickQuestionSent ==
    [][\A k \in 1..MaxTimers :
          (TimerFires(k) /\ ~timers[k].isLoading /\ ~isLoading) =>
              /\ messages' = Append(messages, User(timers[k].question))
              /\ chatReqs' = Append(chatReqs,
                                    ChatRequest(timers[k].question, uploadedDocument))]_vars

\* C19: a file whose extension is not .pdf, .docx or .txt gets the message
\* about unsupported types, no upload request, and leaves the loaded
\* document and the uploading flag as they were
C19_OnlyDocuments ==
    [][\A name \in FileNames :
          (handleFileUpload(name) /\ fileExt(name) \notin allowedTypes) =>
              /\ messages' = Append(messages, Assistant("Unsupported file type"))
              /\ uploadReqs' = uploadReqs
              /\ uploadedDocument' = uploadedDocument
              /\ isUploading' = isUploading]_vars

\* a file was refused while a document was loaded: the document is still there
C19_Witness ==
    /\ messages # <<>>
    /\ messages[Len(messages)] = Assistant("Unsupported file type")
    /\ uploadedDocument.has /\ ~isUploading /\ uploadReqs = <<>> /\ showUploadModal

\* C20: every question goes to /api/chat-with-document with the loaded
\* document while one is loaded, and to /api/chat while none is
C20_DocumentContext ==
    [][Len(chatReqs') > Len(chatReqs) =>
          chatReqs'[Len(chatReqs')] =
              ChatRequest(chatReqs'[Len(chatReqs')].query, uploadedDocument)]_vars

\* C24: in the document of exportWholeDashboard every chart image stands
\* under the title page of the tab the chart belongs to, whatever tab the
\* user clicks while the export waits
C24_ChartsUnderOwnTab ==
    mode = "dashboard" =>
        \A j \in 1..Len(doc) : doc[j].kind = "image" =>
            \E i \in 1..(j - 1) :
                /\ doc[i].kind = "tabTitle" /\ doc[i].key.tab = doc[j].key.tab
                /\ \A k \in (i + 1)..(j - 1) : doc[k].kind # "tabTitle"

\* an export of charts is between its start and its end
Running == pc \in {"wait", "capture", "insight"}

C27_DistinctIds ==
    \A i, j \in 1..Len(savedViews) : savedViews[i].id = savedViews[j].id => i = j

\* C30: when exportWholeDashboard has ended and the user clicked no tab
\* meanwhile, the active tab is the last tab, whatever tab the export was
\* started from; no step of the export changes the date range, the saved
\* views or what is stored of them
C30_EndsOnLastTab ==
    /\ []((mode = "dashboard" /\ pc = "done" /\ Clicks = {}) => activeTab = NumTabs)
    /\ [][mode' = "dashboard" =>
              (dateRange' = dateRange /\ savedViews' = savedViews /\ storage' = storage)]_vars

\* an export started from the first tab has ended on the last one
C30_Witness ==
    /\ mode = "dashboard" /\ pc = "done" /\ saves = 1 /\ Clicks = {}
    /\ script[1][2] = Overview /\ activeTab = NumTabs /\ Overview # NumTabs

\* C28: the welcome message that arrives takes no message of the user out of
\* the conversation
C28_WelcomeKeepsMessages ==
    [][\A ok \in BOOLEAN :
          OverviewReturned(ok) =>
              \A i \in 1..Len(messages) :
                  messages[i].role = "user" =>
                      \E j \in 1..Len(messages') : messages'[j] = messages[i]]_vars

Replies == {Assistant("answer"), Assistant("I apologize"), Assistant("trouble connecting")}

\* C29: a send that posts a request appends one user message and sets
\* isLoading; isLoading stays true while a request is in flight; the reply
\* appends one assistant message and, with no request left, isLoading is
\* false; a send attempted while isLoading is true changes nothing
C29_SendProtocol ==
    /\ [](chatReqs # <<>> => isLoading)
    /\ [][Len(chatReqs') > Len(chatReqs) =>
              /\ ~isLoading /\ isLoading'
              /\ messages' = Append(messages, User(chatReqs'[Len(chatReqs')].query))]_vars
    /\ [][Len(chatReqs') < Len(chatReqs) =>
              /\ \E m \in Replies : messages' = Append(messages, m)
              /\ ~isLoading']_vars
    /\ [][\A k \in 1..MaxTimers :
              (TimerFires(k) /\ isLoading) =>
                  (messages' = messages /\ chatReqs' = chatReqs /\ inputValue' = inputValue)]_vars

\* the data keys of the lines a chart draws
Plotted(c) == {Lines(c, chartState[c].data)[i] :
                  i \in 1..Len(Lines(c, chartState[c].data))}

\* C23: the pivots of QuarterlyComparison and TagsTrends lose no series: each
\* year, and each tag, of an item of the body is the data key of a line; each
\* item has its cell; each cell holds the count of an item of its quarter
\* (period) and year (tag); the quarters come in the order Q1..Q4
C23_PivotKeepsSeries ==
    /\ LET q == chartState["QuarterlyComparison"] IN
          /\ \A n \in 1..Len(q.raw) : q.raw[n].year \in Plotted("QuarterlyComparison")
          /\ \A n \in 1..Len(q.raw) : \E i \in 1..Len(q.data) :
                /\ q.data[i].quarter = QuarterNames[qOrder(QuarterLabel(q.raw[n].quarter))]
                /\ HasKey(q.data[i].cells, q.raw[n].year)
          /\ \A i \in 1..Len(q.data) : \A j \in 1..Len(q.data[i].cells) :
                \E n \in 1..Len(q.raw) :
                    /\ QuarterLabel(q.raw[n].quarter) = q.data[i].quarter
                    /\ q.raw[n].year = q.data[i].cells[j].key
                    /\ q.raw[n].documents = q.data[i].cells[j].value
          /\ \A i, j \in 1..Len(q.data) :
                i < j => qOrder(q.data[i].quarter) < qOrder(q.data[j].quarter)
    /\ LET t == chartState["TagsTrends"] IN
          /\ \A n \in 1..Len(t.raw) : t.raw[n].tag \in Plotted("TagsTrends")
          /\ \A n \in 1..Len(t.raw) : \E i \in 1..Len(t.data) :
                t.data[i].period = t.raw[n].period /\ HasKey(t.data[i].cells, t.raw[n].tag)
          /\ \A i \in 1..Len(t.data) : \A j \in 1..Len(t.data[i].cells) :
                \E n \in 1..Len(t.raw) :
                    /\ t.raw[n].period = t.data[i].period
                    /\ t.raw[n].tag = t.data[i].cells[j].key
                    /\ t.raw[n].count = t.data[i].cells[j].value

\* C21: when a request of a chart fails, the chart then shows its loading
\* state or no data rows, whatever it showed before, and the state of every
\* other chart is what it was
C21_FailureShowsNoRows ==
    [][\A c \in ChartIds, k \in 1..MaxFetches :
          ChartReturned(c, k, FALSE, <<>>) =>
              /\ chartState'[c].loading \/ chartState'[c].data = <<>>
              /\ \A d \in ChartIds \ {c} :
                    chartState'[d] = chartState[d] /\ chartFetches'[d] = chartFetches[d]]_vars

\* C22: whatever the first GET /api/overview answers, the Dashboard, its date
\* inputs and Apply button left alone, comes to a state where both dates of
\* the range are set and loading is false
C22_ReachesLoadedDefault == <>(~initReq /\ RangeSet(dateRange) /\ ~loading)

\* C25: with no fetchOverview in flight and both dates set, the overview is
\* the response to the request for the current range and loading is false;
\* a mounted chart with no fetchData in flight shows the response to the
\* request for the current range and is not loading; while a request is in
\* flight the loading flag of its component is true
C25_DisplayedMatchesRange ==
    /\ (fetches = <<>> /\ RangeSet(dateRange)) =>
           (overview = OverviewOf(dateRange) /\ ~loading)
    /\ fetches # <<>> => loading
    /\ \A c \in ChartIds :
          /\ (chartState[c].on /\ chartFetches[c] = <<>>) =>
                 (chartState[c].of = dateRange /\ ~chartState[c].loading)
          /\ chartFetches[c] # <<>> => chartState[c].loading

====
